---- MODULE Spec2Model ----
(***************************************************************************)
(* Node object storage layer of rippled: the sharded store (Shard,         *)
(* DatabaseShardImp) with its control file, its caches and its backend,    *)
(* under process crashes and restarts.                                     *)
(*                                                                         *)
(* Three revisions of Shard are in the sources and are modelled side by    *)
(* side; the variable `variant` says which one a behaviour runs:           *)
(*   "Shard.cpp" src/src/ripple/nodestore/impl/Shard.cpp                   *)
(*   "part_002"  src/unnamed/part_002 (same algorithm, genesisNumLedgers   *)
(*               computed in place)                                        *)
(*   "part_003"  src/unnamed/part_003 (range check, insert first)          *)
(***************************************************************************)
EXTENDS Integers, FiniteSets, Sequences, TLC

(* ---------------- bounds (scaled-down stand-ins) ----------------------- *)
\* ledgers per shard (16384 in the program)
LedgersPerShard == 3
\* earliest ledger sequence of the network (32570 in the program)
GenesisSeq == 2
\* greatest shard index of the modelled ledger history
MaxShardIndex == 2
\* greatest sequence of a validated ledger handed to prepare
MaxValidLedgerSeq == 5
\* number of objects DatabaseShardImp::store accepts per process run
MaxStores == 1

\* shardCacheSz, and the greatest size tune is called with
ShardCacheSz == 2
MaxCacheSz == 8

Variants == {"Shard.cpp", "part_002", "part_003"}

(* ---------------- shard index arithmetic ------------------------------- *)
seqToShardIndex(seq) == (seq - 1) \div LedgersPerShard
firstSeq(index) == 1 + index * LedgersPerShard
lastSeq(index) == (index + 1) * LedgersPerShard
genesisShardIndex == seqToShardIndex(GenesisSeq)
\* detail::genesisNumLedgers as part_002 spells it out
genesisNumLedgers ==
    LedgersPerShard - (GenesisSeq - firstSeq(seqToShardIndex(GenesisSeq)))

Max(a, b) == IF a >= b THEN a ELSE b

\* Shard::Shard : firstSeq_ and lastSeq_ of the shard with this index
firstSeq_(index) == Max(GenesisSeq, firstSeq(index))
lastSeq_(index) == lastSeq(index)
\* the width both open and setStored compare boost::icl::length against
numLedgers(index) ==
    IF index = genesisShardIndex THEN genesisNumLedgers ELSE LedgersPerShard

ShardIdx == genesisShardIndex .. MaxShardIndex
Seqs == 1 .. lastSeq(MaxShardIndex)
Range(index) == firstSeq_(index) .. lastSeq_(index)

(* ---------------- ledgers, trie nodes, node objects -------------------- *)
ZeroHash == <<"0", 0>>
HasTx(seq) == seq % 2 = 0
\* the ledger header of sequence seq (one ledger per sequence)
LedgerInfo(seq) ==
    [seq |-> seq,
     hash |-> <<"L", seq>>,
     parentHash |-> <<"L", seq - 1>>,
     accountHash |-> <<"S", seq>>,
     txHash |-> IF HasTx(seq) THEN <<"T", seq>> ELSE ZeroHash]
\* state trie in visiting order: its root, then a leaf that every ledger of
\* the same shard shares
stateNodes(seq) == << <<"S", seq>>, <<"A", seqToShardIndex(seq)>> >>
txNodes(seq) == IF HasTx(seq) THEN << <<"T", seq>> >> ELSE << >>

SeqRange(s) == {s[i] : i \in 1 .. Len(s)}
RECURSIVE SelectNotIn(_, _)
SelectNotIn(s, have) ==
    IF s = << >> THEN << >>
    ELSE IF Head(s) \in have THEN SelectNotIn(Tail(s), have)
         ELSE <<Head(s)>> \o SelectNotIn(Tail(s), have)
RECURSIVE PrefixBefore(_, _)
\* the elements of s before the first occurrence of m (all, if none)
PrefixBefore(s, m) ==
    IF s = << >> \/ Head(s) = m THEN << >>
    ELSE <<Head(s)>> \o PrefixBefore(Tail(s), m)
\* SHAMap::visitNodes / SHAMap::visitDifferences over the state trie
visitNodes(seq) == stateNodes(seq)
visitDifferences(seq, have) == SelectNotIn(stateNodes(seq), SeqRange(stateNodes(have)))

NoData == <<"", "", 0>>
\* the blob whose digest is the node hash
NodeData(hash) == <<"node", hash[1], hash[2]>>
\* Serializer: add32(HashPrefix::ledgerMaster), addRaw(info)
HeaderData(seq) == <<"LWR", "L", seq>>
Hashes ==
    UNION {{<<"L", s>>, <<"S", s>>, <<"T", s>>} : s \in Seqs} \cup
    {<<"A", i>> : i \in 0 .. MaxShardIndex}
DataOf(hash) == IF hash[1] = "L" THEN HeaderData(hash[2]) ELSE NodeData(hash)
\* every object an acquirer may hand to store() for a ledger of this sequence
ObjectsOf(seq) ==
    {<<"L", seq>>} \cup SeqRange(stateNodes(seq)) \cup SeqRange(txNodes(seq))

(* ---------------- the control file ------------------------------------- *)
\* the end of the maximal run of S that begins at lo
RunEnd(S, lo) ==
    CHOOSE hi \in S : hi >= lo /\ hi + 1 \notin S /\ (lo .. hi) \subseteq S
SetMin(S) == CHOOSE x \in S : \A y \in S : x <= y
SetMaxOf(S) == CHOOSE x \in S : \A y \in S : x >= y
RECURSIVE Intervals(_)
\* boost::archive::text_oarchive of the interval set: its maximal closed
\* intervals in ascending order
Intervals(S) ==
    IF S = {} THEN << >>
    ELSE LET lo == SetMin(S)
             hi == RunEnd(S, lo)
         IN  << <<lo, hi>> >> \o Intervals(S \ (lo .. hi))
RECURSIVE ParseIntervals(_)
\* boost::archive::text_iarchive: the union of the intervals read
ParseIntervals(iv) ==
    IF iv = << >> THEN {}
    ELSE (Head(iv)[1] .. Head(iv)[2]) \cup ParseIntervals(Tail(iv))

\* a control file: absent, truncated by an interrupted saveControl, or written
NoControl == [state |-> "absent", text |-> << >>]
TruncatedControl == [state |-> "truncated", text |-> << >>]

WrittenControl(S) == [state |-> "written", text |-> Intervals(S)]

(* ---------------- Shard ------------------------------------------------- *)
NoObjects == [h \in Hashes |-> NoData]
\* a Shard object as its constructor leaves it; exists = FALSE: no object
NewShard ==
    [exists |-> TRUE, storedSeqs |-> {}, complete |-> FALSE, lastStored |-> 0,
     pCache |-> NoObjects, nCache |-> {}]
NoShard == [NewShard EXCEPT !.exists = FALSE]

\* a saveControl that reports success and writes nothing
saveControl_skipped(ctl, storedSeqs, ofsOk) == ctl

\* Shard::saveControl : the file after the call; ofsOk = FALSE is an
\* std::ofstream that could not be opened, which leaves the file alone
saveControl(ctl, storedSeqs, ofsOk) ==
    IF ofsOk THEN WrittenControl(storedSeqs) ELSE ctl

\* an open that takes the control file without looking at its bounds
openRange_anyBounds(firstSeq_0, lastSeq_0, width, fdlimit, dirExists, ctl, ofsOk) ==
    LET newShard == ~dirExists
        stored == ParseIntervals(ctl.text)
    IN  IF fdlimit = 0
        THEN [ok |-> TRUE, threw |-> FALSE, shard |-> NewShard,
              dir |-> dirExists, control |-> ctl]
        ELSE IF newShard
        THEN [ok |-> ofsOk, threw |-> FALSE, shard |-> NewShard,
              dir |-> TRUE, control |-> saveControl(ctl, {}, ofsOk)]
        ELSE IF ctl.state = "truncated"
        THEN [ok |-> FALSE, threw |-> TRUE, shard |-> NewShard,
              dir |-> TRUE, control |-> ctl]
        ELSE IF ctl.state = "written"
        THEN IF stored # {} /\ Cardinality(stored) = width
             THEN [ok |-> TRUE, threw |-> FALSE,
                   shard |-> [NewShard EXCEPT !.complete = TRUE],
                   dir |-> TRUE, control |-> NoControl]
             ELSE [ok |-> TRUE, threw |-> FALSE,
                   shard |-> [NewShard EXCEPT !.storedSeqs = stored],
                   dir |-> TRUE, control |-> ctl]
        ELSE [ok |-> TRUE, threw |-> FALSE,
              shard |-> [NewShard EXCEPT !.complete = TRUE],
              dir |-> TRUE, control |-> NoControl]

\* Shard::open of a shard whose constructor has set firstSeq_ and lastSeq_
\* and whose index makes it compare against the width numLedgers.
\* dirExists: the shard directory exists and is not empty.  The result says
\* whether open returned true, whether it left by an exception of the
\* archive, and what it did to the object and the disk.
openRange(firstSeq_0, lastSeq_0, width, fdlimit, dirExists, ctl, ofsOk) ==
    LET newShard == ~dirExists
        stored == ParseIntervals(ctl.text)
    IN  IF fdlimit = 0
        THEN [ok |-> TRUE, threw |-> FALSE, shard |-> NewShard,
              dir |-> dirExists, control |-> ctl]
        ELSE IF newShard
        THEN [ok |-> ofsOk, threw |-> FALSE, shard |-> NewShard,
              dir |-> TRUE, control |-> saveControl(ctl, {}, ofsOk)]
        ELSE IF ctl.state = "truncated"
        THEN [ok |-> FALSE, threw |-> TRUE, shard |-> NewShard,
              dir |-> TRUE, control |-> ctl]
        ELSE IF ctl.state = "written"
        THEN IF stored # {} /\ (SetMin(stored) < firstSeq_0 \/
                                SetMaxOf(stored) > lastSeq_0)
             THEN [ok |-> FALSE, threw |-> FALSE,
                   shard |-> [NewShard EXCEPT !.storedSeqs = stored],
                   dir |-> TRUE, control |-> ctl]
             ELSE IF stored # {} /\ Cardinality(stored) = width
             THEN [ok |-> TRUE, threw |-> FALSE,
                   shard |-> [NewShard EXCEPT !.complete = TRUE],
                   dir |-> TRUE, control |-> NoControl]
             ELSE [ok |-> TRUE, threw |-> FALSE,
                   shard |-> [NewShard EXCEPT !.storedSeqs = stored],
                   dir |-> TRUE, control |-> ctl]
        ELSE [ok |-> TRUE, threw |-> FALSE,
              shard |-> [NewShard EXCEPT !.complete = TRUE],
              dir |-> TRUE, control |-> NoControl]

\* an open that compares against ledgersPerShard for every index
open_plainWidth(index, fdlimit, dirExists, ctl, ofsOk) ==
    openRange(firstSeq_(index), lastSeq_(index), LedgersPerShard,
              fdlimit, dirExists, ctl, ofsOk)

\* Shard::open of the shard with this index
open(index, fdlimit, dirExists, ctl, ofsOk) ==
    openRange(firstSeq_(index), lastSeq_(index), numLedgers(index),
              fdlimit, dirExists, ctl, ofsOk)

\* detail::genesisNumLedgers of the header Shard.cpp and part_003 include
detail_genesisNumLedgers == lastSeq(genesisShardIndex) - GenesisSeq + 1

\* Shard::setStored of Shard.cpp.  asserted: the assert at its head fails
\* (a build with assertions aborts there, a build without goes on).
Shard_setStored(sh, index, fdlimit, ctl, seq, ofsOk) ==
    LET width == IF index = genesisShardIndex
                 THEN detail_genesisNumLedgers ELSE LedgersPerShard
        asserted == sh.complete
    IN  IF seq \in sh.storedSeqs
        THEN [ret |-> FALSE, asserted |-> asserted, shard |-> sh, control |-> ctl]
        ELSE IF Cardinality(sh.storedSeqs) >= width - 1
        THEN [ret |-> TRUE, asserted |-> asserted,
              shard |-> [sh EXCEPT !.complete = TRUE, !.storedSeqs = {}],
              control |-> IF fdlimit # 0 THEN NoControl ELSE ctl]
        ELSE LET ins == [sh EXCEPT !.storedSeqs = @ \cup {seq}, !.lastStored = seq]
             IN  IF fdlimit # 0 /\ ~ofsOk
                 THEN [ret |-> FALSE, asserted |-> asserted, shard |-> ins,
                       control |-> ctl]
                 ELSE [ret |-> TRUE, asserted |-> asserted, shard |-> ins,
                       control |-> IF fdlimit # 0
                                   THEN saveControl(ctl, ins.storedSeqs, ofsOk)
                                   ELSE ctl]

\* Shard::setStored of part_002: the same steps, the genesis width computed
\* in place
Shard_setStored_part_002(sh, index, fdlimit, ctl, seq, ofsOk) ==
    LET width == IF index = seqToShardIndex(GenesisSeq)
                 THEN genesisNumLedgers ELSE LedgersPerShard
        asserted == sh.complete
    IN  IF seq \in sh.storedSeqs
        THEN [ret |-> FALSE, asserted |-> asserted, shard |-> sh, control |-> ctl]
        ELSE IF Cardinality(sh.storedSeqs) >= width - 1
        THEN [ret |-> TRUE, asserted |-> asserted,
              shard |-> [sh EXCEPT !.complete = TRUE, !.storedSeqs = {}],
              control |-> IF fdlimit # 0 THEN NoControl ELSE ctl]
        ELSE LET ins == [sh EXCEPT !.storedSeqs = @ \cup {seq}, !.lastStored = seq]
             IN  IF fdlimit # 0 /\ ~ofsOk
                 THEN [ret |-> FALSE, asserted |-> asserted, shard |-> ins,
                       control |-> ctl]
                 ELSE [ret |-> TRUE, asserted |-> asserted, shard |-> ins,
                       control |-> IF fdlimit # 0
                                   THEN saveControl(ctl, ins.storedSeqs, ofsOk)
                                   ELSE ctl]

\* a setStored that takes the sequence out again when the control file
\* could not be written
Shard_setStored_part_003_rollsBack(sh, index, fdlimit, ctl, seq, ofsOk) ==
    IF seq < firstSeq_(index) \/ seq > lastSeq_(index)
    THEN [ret |-> FALSE, asserted |-> TRUE, shard |-> sh, control |-> ctl]
    ELSE IF sh.complete \/ seq \in sh.storedSeqs
    THEN [ret |-> FALSE, asserted |-> TRUE, shard |-> sh, control |-> ctl]
    ELSE LET ins == [sh EXCEPT !.storedSeqs = @ \cup {seq}]
         IN  IF Cardinality(ins.storedSeqs) =
                    (IF index = genesisShardIndex
                     THEN detail_genesisNumLedgers ELSE LedgersPerShard)
             THEN [ret |-> TRUE, asserted |-> FALSE,
                   shard |-> [ins EXCEPT !.complete = TRUE, !.storedSeqs = {}],
                   control |-> IF fdlimit = 0 THEN ctl ELSE NoControl]
             ELSE LET kept == [ins EXCEPT !.lastStored = seq]
                  IN  IF fdlimit = 0
                      THEN [ret |-> TRUE, asserted |-> FALSE, shard |-> kept,
                            control |-> ctl]
                      ELSE IF ~ofsOk
                      THEN [ret |-> FALSE, asserted |-> FALSE, shard |-> sh,
                            control |-> ctl]
                      ELSE [ret |-> TRUE, asserted |-> FALSE, shard |-> kept,
                            control |-> saveControl(ctl, kept.storedSeqs, ofsOk)]

\* Shard::setStored of part_003: range check, duplicate check, insert, then
\* compare.  asserted: one of its assert(false) lines is reached.
Shard_setStored_part_003(sh, index, fdlimit, ctl, seq, ofsOk) ==
    IF seq < firstSeq_(index) \/ seq > lastSeq_(index)
    THEN [ret |-> FALSE, asserted |-> TRUE, shard |-> sh, control |-> ctl]
    ELSE IF sh.complete \/ seq \in sh.storedSeqs
    THEN [ret |-> FALSE, asserted |-> TRUE, shard |-> sh, control |-> ctl]
    ELSE LET ins == [sh EXCEPT !.storedSeqs = @ \cup {seq}]
         IN  IF Cardinality(ins.storedSeqs) =
                    (IF index = genesisShardIndex
                     THEN detail_genesisNumLedgers ELSE LedgersPerShard)
             THEN [ret |-> TRUE, asserted |-> FALSE,
                   shard |-> [ins EXCEPT !.complete = TRUE, !.storedSeqs = {}],
                   control |-> IF fdlimit = 0 THEN ctl ELSE NoControl]
             ELSE LET kept == [ins EXCEPT !.lastStored = seq]
                  IN  IF fdlimit = 0
                      THEN [ret |-> TRUE, asserted |-> FALSE, shard |-> kept,
                            control |-> ctl]
                      ELSE IF ~ofsOk
                      THEN [ret |-> FALSE, asserted |-> FALSE, shard |-> kept,
                            control |-> ctl]
                      ELSE [ret |-> TRUE, asserted |-> FALSE, shard |-> kept,
                            control |-> saveControl(ctl, kept.storedSeqs, ofsOk)]

\* the setStored of the revision a behaviour runs
setStoredOf(v, sh, index, fdlimit, ctl, seq, ofsOk) ==
    IF v = "Shard.cpp" THEN Shard_setStored(sh, index, fdlimit, ctl, seq, ofsOk)
    ELSE IF v = "part_002"
    THEN Shard_setStored_part_002(sh, index, fdlimit, ctl, seq, ofsOk)
    ELSE Shard_setStored_part_003(sh, index, fdlimit, ctl, seq, ofsOk)

\* prevMissing(rs, t, until): the greatest v < t with v >= until not in rs
prevMissing(rs, t, until) ==
    LET cand == {v \in until .. (t - 1) : v \notin rs}
    IN  IF cand = {} THEN 0 ELSE SetMaxOf(cand)

\* a prepare that looks for the missing sequence below lastSeq_
prepareRange_belowLast(storedSeqs, firstSeq_0, lastSeq_0) ==
    IF storedSeqs = {} THEN lastSeq_0
    ELSE prevMissing(storedSeqs, lastSeq_0, firstSeq_0)

\* Shard::prepare of a shard with these storedSeqs_, firstSeq_ and lastSeq_
\* (0: boost::none)
prepareRange(storedSeqs, firstSeq_0, lastSeq_0) ==
    IF storedSeqs = {} THEN lastSeq_0
    ELSE prevMissing(storedSeqs, 1 + lastSeq_0, firstSeq_0)

\* a prepare that always asks for the last sequence of the range
Shard_prepare_lastSeq(sh, index) == lastSeq_(index)

\* Shard::prepare of the shard with this index
Shard_prepare(sh, index) ==
    prepareRange(sh.storedSeqs, firstSeq_(index), lastSeq_(index))

\* Shard::hasLedger
Shard_hasLedger(sh, index, seq) ==
    IF seq < firstSeq_(index) \/ seq > lastSeq_(index) THEN FALSE
    ELSE IF sh.complete THEN TRUE
    ELSE seq \in sh.storedSeqs

(* ---------------- state -------------------------------------------------- *)
VARIABLES
    variant,      \* the revision of Shard this behaviour runs
    backed_,      \* DatabaseShardImp::backed_ : the backend type has fdlimit # 0
    up,           \* the process runs (FALSE: it crashed, or init failed)
    dir,          \* per shard index: the shard directory exists, with files
    control,      \* per shard index: the control file
    backend,      \* per shard index: the objects in the shard's backend
    shards,       \* per shard index: the Shard object in memory
    complete_,    \* DatabaseShardImp::complete_ : the keys of the map
    incomplete_,  \* DatabaseShardImp::incomplete_ : its index, -1 when null
    canAdd_,      \* DatabaseShardImp::canAdd_
    status_,      \* DatabaseShardImp::status_ : the string of complete shards
    acked,        \* history: per shard index, the seqs for which a direct
                  \* call of Shard::setStored has returned true
    inserted,     \* history: per shard index, the seqs a direct call of
                  \* Shard::setStored has put into storedSeqs_
    accepted,     \* history: the (hash, seq) pairs store() has accepted
    reading,      \* the thread inside fetch, asyncFetch or fetchFrom: the
                  \* shard whose caches or backend it has taken a pointer to
    usedDead,     \* history: a pointer was used after its Shard was gone
    cacheSz_,     \* DatabaseShardImp::cacheSz_
    targets,      \* per shard index of the inventory: the target sizes of
                  \* its pCache and nCache, 0 for an index it does not hold
    twin,         \* two Shard objects of one index, one per way of
                  \* completing in setStored, given the same calls
    acquirer      \* the acquirer of the incomplete shard: its position
                  \* (before prepare, before copyLedger), the sequence
                  \* prepare returned and, per shard index, the number of
                  \* its copyLedger calls that returned true

\* the rotating store (DatabaseRotatingImp), a store of its own
VARIABLES
    writableBackend_,  \* DatabaseRotatingImp::writableBackend_ : a backend id
    archiveBackend_,   \* DatabaseRotatingImp::archiveBackend_ : a backend id
    objects,           \* per backend id: the objects in that backend
    nCache_,           \* Database::nCache_ of the rotating store
    retired,           \* the backends rotateBackends has returned
    fetching,          \* the thread inside fetchFrom: its position and locals
    copying,           \* the thread inside copyLedger: its position and locals
    returned,          \* history: what the last fetchFrom returned, and where
                       \* the object and the hash were at that moment
    pairs,             \* history: the (writable, archive) pairs the store had
    wroteRetired       \* history: the backends written to while retired

rotating == <<writableBackend_, archiveBackend_, objects, nCache_, retired,
              fetching, copying, returned, pairs, wroteRetired>>

threads == <<reading, usedDead>>

caches == <<cacheSz_, targets>>

shardStoreButAcquirer == <<variant, backed_, up, dir, control, backend,
                           shards, complete_, incomplete_, canAdd_, status_,
                           acked, inserted, accepted, threads, caches, twin>>

shardStoreButTwin == <<variant, backed_, up, dir, control, backend, shards,
                       complete_, incomplete_, canAdd_, status_, acked,
                       inserted, accepted, threads, caches, acquirer>>

vars == <<variant, backed_, up, dir, control, backend, shards, complete_,
          incomplete_, canAdd_, status_, acked, inserted, accepted, threads,
          caches, twin, acquirer, rotating>>

\* disk sizes, in units of a shard file, up to which budgets are tried
MaxDisk == 2
\* the cache entries, negative and positive, up to which fetch adds one
MaxNegative == 1
MaxPositive == 1
\* the greatest shard index from which on findShardIndexToAdd samples a
\* sparse inventory instead of enumerating it (1024 in the program)
DenseLimit == 2
\* the rounds of its sampling loop
Samples == 40
\* the shard directories on disk while another one is brought in
MaxPlaced == 2
\* the rotations of the rotating store in one behaviour
MaxRotations == 2

\* backend ids: 0 and 1 are the archive and the writable backend the store
\* is constructed with, every rotation brings the next one; two more than
\* a behaviour uses, for the rotations a property looks ahead
BackendIds == 0 .. (MaxRotations + 3)
\* the ledger the rotating store copies, and whose objects are fetched
RotatingSeq == GenesisSeq
NoCall == [pc |-> "idle", hash |-> ZeroHash, b |-> <<0, 0>>, nObj |-> NoData,
           w |-> 0]
NoReturn == [hash |-> ZeroHash, nObj |-> NoData, promoted |-> FALSE,
             inWritable |-> FALSE, negative |-> FALSE]

\* no Shard, no caches
NoTarget == [p |-> 0, n |-> 0]
\* no pair of Shard objects under comparison
NoTwin == [index |-> -1, called |-> {},
           before |-> [shard |-> NoShard, control |-> NoControl],
           after |-> [shard |-> NoShard, control |-> NoControl],
           rets |-> << >>, differed |-> FALSE, refused |-> {}]

NoIndex == -1
\* no thread is between taking a pointer and using it
NoReader ==
    [pc |-> "idle", index |-> NoIndex, hash |-> ZeroHash, seq |-> 0,
     kind |-> "", wasIncomplete |-> FALSE, dead |-> FALSE]
fdlimit == IF backed_ THEN 1 ELSE 0

Init ==
    /\ variant \in Variants
    /\ backed_ \in BOOLEAN
    /\ up = TRUE
    /\ dir = [i \in ShardIdx |-> FALSE]
    /\ control = [i \in ShardIdx |-> NoControl]
    /\ backend = [i \in ShardIdx |-> NoObjects]
    /\ shards = [i \in ShardIdx |-> NoShard]
    /\ complete_ = {}
    /\ incomplete_ = NoIndex
    /\ canAdd_ = TRUE
    /\ status_ = ""
    /\ acked = [i \in ShardIdx |-> {}]
    /\ inserted = [i \in ShardIdx |-> {}]
    /\ accepted = {}
    /\ reading = NoReader
    /\ usedDead = FALSE
    /\ cacheSz_ = ShardCacheSz
    /\ targets = [i \in ShardIdx |-> NoTarget]
    /\ twin = NoTwin
    /\ acquirer = [pc |-> "prepare", seq |-> 0,
                   copied |-> [i \in ShardIdx |-> 0]]
    /\ writableBackend_ = 1
    /\ archiveBackend_ = 0
    /\ objects = [id \in BackendIds |-> NoObjects]
    /\ nCache_ = {}
    /\ retired = {}
    /\ fetching = NoCall
    /\ copying = NoCall
    /\ returned = NoReturn
    /\ pairs = {<<1, 0>>}
    /\ wroteRetired = {}

(* ---------------- DatabaseShardImp -------------------------------------- *)
\* --x and x + 1 on a std::uint32_t; 2147483647, the greatest number the
\* model checker holds, stands for 4294967295
Uint32Dec(x) == IF x = 0 THEN 2147483647 ELSE x - 1
Uint32Inc(x) == IF x = 2147483647 THEN 0 ELSE x + 1

\* the free indexes of genesisShardIndex .. maxShardIndex, and the owned ones
available(maxShardIndex, comp, incomp) ==
    {i \in genesisShardIndex .. maxShardIndex : i \notin comp /\ i # incomp}
owned(maxShardIndex, comp, incomp) ==
    {i \in genesisShardIndex .. maxShardIndex : i \in comp \/ i = incomp}

\* the values that stand for what a std::uint32_t can hold, where any of
\* them can come out
AnyUint32 == 0 .. (MaxShardIndex + 1)

\* rand_int(min, max): a number of min .. max; with min > max
\* std::uniform_int_distribution is used outside its precondition and any
\* number can come out
rand_int(min, max) == IF min <= max THEN min .. max ELSE AnyUint32

RECURSIVE sampleIndexesFrom(_, _, _, _, _)
\* the last n rounds of the sampling loop in a store whose genesis shard
\* has the index genesis
sampleIndexesFrom(n, genesis, maxShardIndex, comp, incomp) ==
    IF n = 0 THEN {NoIndex}
    ELSE LET drawn == rand_int(genesis, maxShardIndex)
             free == {r \in drawn : r \notin comp /\ r # incomp}
         IN  free \cup (IF drawn \ free # {}
                        THEN sampleIndexesFrom(n - 1, genesis, maxShardIndex,
                                               comp, incomp)
                        ELSE {})

\* DatabaseShardImp::findShardIndexToAdd in a store whose genesis shard has
\* the index genesis (detail::genesisShardIndex): the indexes it can return
findShardIndexToAddFrom(genesis, validLedgerSeq, comp, incomp) ==
    LET idx0 == seqToShardIndex(validLedgerSeq)
        maxShardIndex == IF validLedgerSeq # lastSeq(idx0)
                         THEN Uint32Dec(idx0) ELSE idx0
        numShards == Cardinality(comp) + (IF incomp # NoIndex THEN 1 ELSE 0)
        free == {i \in genesis .. maxShardIndex : i \notin comp /\ i # incomp}
    IN  IF numShards >= Uint32Inc(maxShardIndex) THEN {NoIndex}
        ELSE IF (maxShardIndex < DenseLimit \/ 2 * numShards > maxShardIndex)
                /\ free # {}
        THEN free
        ELSE sampleIndexesFrom(Samples, genesis, maxShardIndex, comp, incomp)

\* a findShardIndexToAdd whose sampling loop returns the index drawn without
\* looking it up in the inventory
findShardIndexToAdd_unchecked(validLedgerSeq, comp, incomp) ==
    LET idx0 == seqToShardIndex(validLedgerSeq)
        maxShardIndex == IF validLedgerSeq # lastSeq(idx0)
                         THEN Uint32Dec(idx0) ELSE idx0
        numShards == Cardinality(comp) + (IF incomp # NoIndex THEN 1 ELSE 0)
    IN  IF numShards >= Uint32Inc(maxShardIndex) THEN {NoIndex}
        ELSE IF (maxShardIndex < DenseLimit \/ 2 * numShards > maxShardIndex)
                /\ available(maxShardIndex, comp, incomp) # {}
        THEN available(maxShardIndex, comp, incomp)
        ELSE genesisShardIndex .. maxShardIndex

\* DatabaseShardImp::findShardIndexToAdd : the indexes it can return for
\* some outcome of rand_int (NoIndex: boost::none)
findShardIndexToAdd(validLedgerSeq, comp, incomp) ==
    findShardIndexToAddFrom(genesisShardIndex, validLedgerSeq, comp, incomp)

\* the keys of a std::map in the order its iterator hands them out
RECURSIVE ascending(_)
ascending(S) ==
    IF S = {} THEN << >>
    ELSE << SetMin(S) >> \o ascending(S \ {SetMin(S)})

\* std::string::back
back(str) == SubSeq(str, Len(str), Len(str))

RECURSIVE statusLoop_openRuns(_, _, _)
\* a loop that does not close a run when the next index is not adjacent
statusLoop_openRuns(keys, i, str) ==
    IF i > Len(keys) THEN str
    ELSE IF i = 1 THEN statusLoop_openRuns(keys, 2, ToString(keys[1]))
    ELSE IF keys[i] - keys[i - 1] > 1
    THEN statusLoop_openRuns(keys, i + 1, str \o "," \o ToString(keys[i]))
    ELSE statusLoop_openRuns(keys, i + 1,
             LET dashed == IF back(str) # "-" THEN str \o "-" ELSE str
             IN  IF i = Len(keys) THEN dashed \o ToString(keys[i]) ELSE dashed)

RECURSIVE statusLoop(_, _, _)
\* the loop of DatabaseShardImp::updateStats over complete_, at its i-th
\* key, with status_ as built so far
statusLoop(keys, i, str) ==
    IF i > Len(keys) THEN str
    ELSE IF i = 1 THEN statusLoop(keys, 2, ToString(keys[1]))
    ELSE IF keys[i] - keys[i - 1] > 1
    THEN statusLoop(keys, i + 1,
             (IF back(str) = "-" THEN str \o ToString(keys[i - 1]) ELSE str)
                 \o "," \o ToString(keys[i]))
    ELSE statusLoop(keys, i + 1,
             LET dashed == IF back(str) # "-" THEN str \o "-" ELSE str
             IN  IF i = Len(keys) THEN dashed \o ToString(keys[i]) ELSE dashed)

\* DatabaseShardImp::updateStats : status_ afterwards, old when complete_
\* is empty
status(comp, old) ==
    IF comp # {} THEN statusLoop(ascending(comp), 1, "") ELSE old

\* DatabaseShardImp::getCompleteShards
getCompleteShards == status_

\* DatabaseShardImp::updateStats : canAdd_ afterwards; full: usedDiskSpace_
\* has reached maxDiskSpace_
updateStats(canAdd, full) == IF backed_ /\ full THEN FALSE ELSE canAdd

\* a budget test that does not ask the file system for its free space
diskBudget_noFree(usedDiskSpace, avgShardSz, maxDiskSpace, free) ==
    ~(usedDiskSpace + avgShardSz > maxDiskSpace)

\* the two tests prepare makes before it creates a shard in a file-backed
\* store, on usedDiskSpace_, avgShardSz_, maxDiskSpace_ and the free space
\* boost::filesystem::space reports: TRUE when neither refuses
diskBudget(usedDiskSpace, avgShardSz, maxDiskSpace, free) ==
    /\ ~(usedDiskSpace + avgShardSz > maxDiskSpace)
    /\ ~(avgShardSz > free)

\* a prepare that looks at canAdd_ before it looks at the incomplete shard
prepare_canAddFirst(validLedgerSeq, diskOk, ofsOk, pick) ==
    LET same == [ret |-> 0, dir |-> dir, control |-> control,
                 backend |-> backend, shards |-> shards,
                 incomplete |-> incomplete_, canAdd |-> canAdd_]
    IN  IF ~canAdd_ THEN same
        ELSE IF incomplete_ # NoIndex
        THEN [same EXCEPT !.ret = Shard_prepare(shards[incomplete_], incomplete_)]
        ELSE [same EXCEPT !.canAdd = FALSE]

\* a prepare that tries again although canAdd_ is cleared
prepare_ignoresCanAdd(validLedgerSeq, diskOk, ofsOk, pick) ==
    LET same == [ret |-> 0, dir |-> dir, control |-> control,
                 backend |-> backend, shards |-> shards,
                 incomplete |-> incomplete_, canAdd |-> canAdd_]
    IN  IF incomplete_ # NoIndex
        THEN [same EXCEPT !.ret = Shard_prepare(shards[incomplete_], incomplete_)]
        ELSE IF backed_ /\ ~diskOk THEN [same EXCEPT !.canAdd = FALSE]
        ELSE IF pick = NoIndex THEN [same EXCEPT !.canAdd = FALSE]
        ELSE LET r == open(pick, fdlimit, dir[pick], control[pick], ofsOk)
             IN  IF ~r.ok
                 THEN [same EXCEPT !.dir[pick] = FALSE,
                                   !.control[pick] = NoControl,
                                   !.backend[pick] = NoObjects]
                 ELSE [same EXCEPT !.dir[pick] = r.dir,
                                   !.control[pick] = r.control,
                                   !.shards[pick] = r.shard,
                                   !.incomplete = pick,
                                   !.ret = Shard_prepare(r.shard, pick)]

\* DatabaseShardImp::prepare; pick: what findShardIndexToAdd returns if it
\* is called.  ret: the sequence returned, 0 for boost::none
prepare(validLedgerSeq, diskOk, ofsOk, pick) ==
    LET same == [ret |-> 0, dir |-> dir, control |-> control,
                 backend |-> backend, shards |-> shards,
                 incomplete |-> incomplete_, canAdd |-> canAdd_]
    IN  IF incomplete_ # NoIndex
        THEN [same EXCEPT !.ret = Shard_prepare(shards[incomplete_], incomplete_)]
        ELSE IF ~canAdd_ THEN same
        ELSE IF backed_ /\ ~diskOk THEN [same EXCEPT !.canAdd = FALSE]
        ELSE IF pick = NoIndex THEN [same EXCEPT !.canAdd = FALSE]
        ELSE LET r == open(pick, fdlimit, dir[pick], control[pick], ofsOk)
             IN  IF ~r.ok
                 THEN [same EXCEPT !.dir[pick] = FALSE,
                                   !.control[pick] = NoControl,
                                   !.backend[pick] = NoObjects]
                 ELSE [same EXCEPT !.dir[pick] = r.dir,
                                   !.control[pick] = r.control,
                                   !.shards[pick] = r.shard,
                                   !.incomplete = pick,
                                   !.ret = Shard_prepare(r.shard, pick)]

\* prepare gets as far as findShardIndexToAdd
prepareFinds(diskOk) ==
    incomplete_ = NoIndex /\ canAdd_ /\ (backed_ => diskOk)

\* a routing that knows the complete shards only
fetchRoute_completeOnly(seq, comp, incomp) ==
    LET shardIndex == seqToShardIndex(seq)
    IN  IF shardIndex \in comp THEN shardIndex ELSE NoIndex

\* the shard fetch / fetchFrom route seq to in the inventory (comp, incomp),
\* NoIndex when none owns it
fetchRoute(seq, comp, incomp) ==
    LET shardIndex == seqToShardIndex(seq)
    IN  IF shardIndex \in comp THEN shardIndex
        ELSE IF incomp # NoIndex /\ incomp = shardIndex THEN shardIndex
        ELSE NoIndex
\* a routing of writes that takes a complete shard too
storeRoute_likeFetch(seq) == fetchRoute(seq, complete_, incomplete_)

\* the shard store / setStored / copyLedger take seq for: the incomplete one
storeRoute(seq) ==
    LET shardIndex == seqToShardIndex(seq)
    IN  IF incomplete_ = NoIndex \/ shardIndex # incomplete_ THEN NoIndex
        ELSE shardIndex

\* pCache().canonicalize(hash, nObj, true); getBackend().store(nObj);
\* nCache().erase(hash) for every hash of hs, nObj holding DataOf(hash)
storeObjects(sh, be, hs) ==
    [shard |-> [sh EXCEPT !.pCache = [h \in Hashes |->
                                         IF h \in hs THEN DataOf(h) ELSE @[h]],
                          !.nCache = @ \ hs],
     backend |-> [h \in Hashes |-> IF h \in hs THEN DataOf(h) ELSE be[h]]]

\* DatabaseShardImp::fetchFrom : fetchInternal on the routed backend
fetchFrom(hash, seq, be, comp, incomp) ==
    IF fetchRoute(seq, comp, incomp) = NoIndex THEN NoData
    ELSE be[fetchRoute(seq, comp, incomp)][hash]

\* Database::doFetch on the caches of shard sh: the data returned (NoData:
\* a null pointer) and the caches afterwards
doFetch(hash, seq, sh, be, comp, incomp) ==
    IF sh.pCache[hash] # NoData THEN [data |-> sh.pCache[hash], shard |-> sh]
    ELSE IF hash \in sh.nCache THEN [data |-> NoData, shard |-> sh]
    ELSE LET nObj == fetchFrom(hash, seq, be, comp, incomp)
         IN  IF nObj = NoData
             THEN [data |-> NoData, shard |-> [sh EXCEPT !.nCache = @ \cup {hash}]]
             ELSE [data |-> nObj, shard |-> [sh EXCEPT !.pCache[hash] = nObj]]

\* DatabaseShardImp::fetch in the store state (shs, be, comp, incomp)
fetch(hash, seq, shs, be, comp, incomp) ==
    LET idx == fetchRoute(seq, comp, incomp)
    IN  IF idx = NoIndex THEN [data |-> NoData, shards |-> shs]
        ELSE LET r == doFetch(hash, seq, shs[idx], be, comp, incomp)
             IN  [data |-> r.data, shards |-> [shs EXCEPT ![idx] = r.shard]]

\* DatabaseShardImp::asyncFetch ; ret: what it returns, object: what it
\* leaves in `object` (NoData: null), posted: it has handed the read to
\* Database::asyncFetch with the caches of the routed shard
asyncFetch(hash, seq, shs, comp, incomp) ==
    LET idx == fetchRoute(seq, comp, incomp)
    IN  IF idx = NoIndex
        THEN [ret |-> FALSE, object |-> NoData, posted |-> NoIndex]
        ELSE IF shs[idx].pCache[hash] # NoData \/ hash \in shs[idx].nCache
        THEN [ret |-> TRUE, object |-> shs[idx].pCache[hash], posted |-> NoIndex]
        ELSE [ret |-> FALSE, object |-> NoData, posted |-> idx]

\* a store that puts the object into the caches and not into the backend
store_cachesOnly(seq, hash) ==
    LET idx == storeRoute(seq)
    IN  IF idx = NoIndex
        THEN [ok |-> FALSE, shards |-> shards, backend |-> backend]
        ELSE [ok |-> TRUE,
              shards |-> [shards EXCEPT ![idx] =
                             storeObjects(shards[idx], backend[idx], {hash}).shard],
              backend |-> backend]

\* DatabaseShardImp::store ; ok: the object was taken
store(seq, hash) ==
    LET idx == storeRoute(seq)
    IN  IF idx = NoIndex
        THEN [ok |-> FALSE, shards |-> shards, backend |-> backend]
        ELSE LET r == storeObjects(shards[idx], backend[idx], {hash})
             IN  [ok |-> TRUE,
                  shards |-> [shards EXCEPT ![idx] = r.shard],
                  backend |-> [backend EXCEPT ![idx] = r.backend]]

\* the tail shared by DatabaseShardImp::setStored and copyLedger: the
\* incomplete shard (as sh, its objects written into be) takes
\* Shard::setStored; a completed shard moves into the complete map
afterSetStored(idx, sh, be, seq, ofsOk, full) ==
    LET r == setStoredOf(variant, sh, idx, fdlimit, control[idx], seq, ofsOk)
        moved == r.ret /\ r.shard.complete
    IN  [ret |-> r.ret,
         asserted |-> r.asserted,
         shards |-> [shards EXCEPT ![idx] = r.shard],
         control |-> [control EXCEPT ![idx] = r.control],
         backend |-> [backend EXCEPT ![idx] = be],
         complete |-> IF moved THEN complete_ \cup {idx} ELSE complete_,
         incomplete |-> IF moved THEN NoIndex ELSE incomplete_,
         canAdd |-> IF moved THEN updateStats(canAdd_, full) ELSE canAdd_,
         status |-> IF moved THEN status(complete_ \cup {idx}, status_)
                    ELSE status_]

\* a hand-over in which the shard that completes is let go of
kept_untilComplete(idx, r) ==
    r.shards[idx].exists /\ ~(idx \in r.complete \ complete_)

\* the Shard object of index idx is alive, and the same object, after the
\* call with result r: complete_.emplace(index, std::move(incomplete_))
\* hands the object over before incomplete_.reset(), and setStored and
\* copyLedger let go of no other Shard
kept(idx, r) == r.shards[idx].exists

\* the store state as a result that changes nothing
unchanged(ret) ==
    [ret |-> ret, asserted |-> FALSE, shards |-> shards, control |-> control,
     backend |-> backend, complete |-> complete_, incomplete |-> incomplete_,
     canAdd |-> canAdd_, status |-> status_]

\* DatabaseShardImp::setStored for the (valid) ledger of sequence seq;
\* ret: what Shard::setStored returned, FALSE when it was not called
setStored(seq, ofsOk, full) ==
    LET idx == storeRoute(seq)
    IN  IF idx = NoIndex THEN unchanged(FALSE)
        ELSE afterSetStored(idx, shards[idx], backend[idx], seq, ofsOk, full)

\* a copy that takes any ledger last stored for the successor
copyStateVisit_anyLastStored(sh, seq) ==
    LET next == sh.lastStored
    IN  IF next # 0 THEN visitDifferences(seq, next) ELSE visitNodes(seq)

\* the state nodes copyLedger visits: the difference with the ledger last
\* stored when that one is the successor, else all of them
copyStateVisit(sh, seq) ==
    LET next == sh.lastStored
    IN  IF next # 0 /\ LedgerInfo(next).parentHash = LedgerInfo(seq).hash
        THEN visitDifferences(seq, next)
        ELSE visitNodes(seq)

\* a copy that leaves out the transaction map
copyWrites_stateOnly(sh, seq, missing) ==
    LET stateV == IF LedgerInfo(seq).accountHash # ZeroHash
                  THEN copyStateVisit(sh, seq) ELSE << >>
        header == << LedgerInfo(seq).hash >>
    IN  IF missing \in SeqRange(stateV)
        THEN [failed |-> TRUE, writes |-> header \o PrefixBefore(stateV, missing)]
        ELSE [failed |-> FALSE, writes |-> header \o stateV]

\* the objects copyLedger writes, in order, when srcDB.fetch finds every
\* node but `missing`; failed: it returns false before Shard::setStored
copyWrites(sh, seq, missing) ==
    LET stateV == IF LedgerInfo(seq).accountHash # ZeroHash
                  THEN copyStateVisit(sh, seq) ELSE << >>
        txV == IF LedgerInfo(seq).txHash # ZeroHash THEN txNodes(seq) ELSE << >>
        header == << LedgerInfo(seq).hash >>
    IN  IF missing \in SeqRange(stateV)
        THEN [failed |-> TRUE, writes |-> header \o PrefixBefore(stateV, missing)]
        ELSE IF missing \in SeqRange(txV)
        THEN [failed |-> TRUE,
              writes |-> header \o stateV \o PrefixBefore(txV, missing)]
        ELSE [failed |-> FALSE, writes |-> header \o stateV \o txV]

\* a copyLedger that calls Shard::setStored whether or not every node was
\* fetched and written
copyLedger_setStoredFirst(seq, missing, ofsOk, full) ==
    LET idx == storeRoute(seq)
    IN  IF idx = NoIndex THEN unchanged(FALSE)
        ELSE LET w == copyWrites(shards[idx], seq, missing)
                 st == storeObjects(shards[idx], backend[idx], SeqRange(w.writes))
             IN  afterSetStored(idx, st.shard, st.backend, seq, ofsOk, full)

\* DatabaseShardImp::copyLedger of the (valid) ledger of sequence seq from
\* another database in which srcDB.fetch finds every node but `missing`
copyLedger(seq, missing, ofsOk, full) ==
    LET idx == storeRoute(seq)
    IN  IF idx = NoIndex THEN unchanged(FALSE)
        ELSE LET w == copyWrites(shards[idx], seq, missing)
                 st == storeObjects(shards[idx], backend[idx], SeqRange(w.writes))
             IN  IF w.failed
                 THEN [unchanged(FALSE) EXCEPT !.shards[idx] = st.shard,
                                               !.backend[idx] = st.backend]
                 ELSE afterSetStored(idx, st.shard, st.backend, seq, ofsOk, full)

\* the ledgers of sequence seq a caller may hand to copyLedger: the valid
\* one, one with no hash and one with no state map hash
Ledgers(seq) ==
    {LedgerInfo(seq),
     [LedgerInfo(seq) EXCEPT !.hash = ZeroHash],
     [LedgerInfo(seq) EXCEPT !.accountHash = ZeroHash]}

\* a copyLedger that does not look at the hashes of the ledger
copyLedgerFrom_anyLedger(info, sameDB, missing, ofsOk, full) ==
    IF sameDB THEN [unchanged(FALSE) EXCEPT !.asserted = TRUE]
    ELSE copyLedger(info.seq, missing, ofsOk, full)

\* DatabaseShardImp::copyLedger from its head: the tests of the ledger and
\* of its source database (sameDB: &srcDB == this) come before the routing;
\* asserted: an assert(false) is reached, where a build with assertions
\* aborts
copyLedgerFrom(info, sameDB, missing, ofsOk, full) ==
    IF info.hash = ZeroHash \/ info.accountHash = ZeroHash
    THEN [unchanged(FALSE) EXCEPT !.asserted = TRUE]
    ELSE IF sameDB THEN [unchanged(FALSE) EXCEPT !.asserted = TRUE]
    ELSE copyLedger(info.seq, missing, ofsOk, full)

\* DatabaseShardImp::hasLedger in the inventory (shs, comp, incomp)
hasLedger(seq, shs, comp, incomp) ==
    LET shardIndex == seqToShardIndex(seq)
    IN  IF shardIndex \in comp THEN TRUE
        ELSE IF incomp # NoIndex /\ incomp = shardIndex
        THEN Shard_hasLedger(shs[incomp], incomp, seq)
        ELSE FALSE

\* the process dies with the disk as given: memory is lost, and with it the
\* objects of a backend that keeps no files
crashWith(d, c, b) ==
    /\ up' = FALSE
    /\ dir' = d
    /\ control' = c
    /\ backend' = IF backed_ THEN b ELSE [i \in ShardIdx |-> NoObjects]
    /\ shards' = [i \in ShardIdx |-> NoShard]
    /\ complete_' = {}
    /\ incomplete_' = NoIndex
    /\ canAdd_' = TRUE
    /\ status_' = ""
    /\ accepted' = {}
    /\ reading' = NoReader
    /\ cacheSz_' = ShardCacheSz
    /\ targets' = [i \in ShardIdx |-> NoTarget]
    /\ UNCHANGED <<usedDead, rotating, twin, acquirer, variant, backed_, acked, inserted>>

\* the orders in which directory_iterator can hand out the directories S
Orders(S) ==
    {o \in [1 .. Cardinality(S) -> S] :
        \A a, b \in 1 .. Cardinality(S) : o[a] = o[b] => a = b}

\* the inventory and the control files before init has opened a shard
NoneFound ==
    [ok |-> TRUE, shards |-> [i \in ShardIdx |-> NoShard], control |-> control,
     complete |-> {}, incomplete |-> NoIndex]

RECURSIVE findShards_keepsLast(_, _)
\* a scan that lets a later incomplete shard replace the one it holds
findShards_keepsLast(order, acc) ==
    IF order = << >> \/ ~acc.ok THEN acc
    ELSE LET i == Head(order)
             r == open(i, fdlimit, dir[i], acc.control[i], TRUE)
             opened == [acc EXCEPT !.control[i] = r.control]
         IN  IF ~r.ok THEN [opened EXCEPT !.ok = FALSE]
             ELSE IF r.shard.complete
             THEN findShards_keepsLast(Tail(order),
                      [opened EXCEPT !.shards[i] = r.shard,
                                     !.complete = @ \cup {i}])
             ELSE findShards_keepsLast(Tail(order),
                      [opened EXCEPT !.shards[i] = r.shard, !.incomplete = i])

RECURSIVE findShards(_, _)
\* the loop of DatabaseShardImp::init over the shard directories, taken in
\* this order; ok: init has not returned false (nor left by an exception)
findShards(order, acc) ==
    IF order = << >> \/ ~acc.ok THEN acc
    ELSE LET i == Head(order)
             r == open(i, fdlimit, dir[i], acc.control[i], TRUE)
             opened == [acc EXCEPT !.control[i] = r.control]
         IN  IF ~r.ok THEN [opened EXCEPT !.ok = FALSE]
             ELSE IF r.shard.complete
             THEN findShards(Tail(order),
                      [opened EXCEPT !.shards[i] = r.shard,
                                     !.complete = @ \cup {i}])
             ELSE IF acc.incomplete # NoIndex THEN [opened EXCEPT !.ok = FALSE]
             ELSE findShards(Tail(order),
                      [opened EXCEPT !.shards[i] = r.shard, !.incomplete = i])

\* the directories init iterates over: none when the backend keeps no files
found == IF backed_ THEN {i \in ShardIdx : dir[i]} ELSE {}

(* ---------------- cache sizes ------------------------------------------ *)
\* the sizes tune is called with
CacheSizes == {ShardCacheSz, MaxCacheSz}

\* the size prepare gives the caches of a new shard
newShardCacheSz(cacheSz, comp) ==
    Max(ShardCacheSz, cacheSz \div Max(1, Cardinality(comp) + 1))

\* DatabaseShardImp::calcTargetCacheSz
calcTargetCacheSz(cacheSz, comp) ==
    Max(ShardCacheSz, cacheSz \div Max(1, Cardinality(comp) + 1))

\* the Shard constructor with cacheSz, for the shards of shs made in this
\* call; the caches of a Shard that is gone are gone with it
made(shs, cacheSz) ==
    [i \in ShardIdx |->
        IF ~shs[i].exists THEN NoTarget
        ELSE IF ~shards[i].exists THEN [p |-> cacheSz, n |-> cacheSz]
        ELSE targets[i]]

\* the shards of the inventory (comp, incomp)
held(comp, incomp) == comp \cup ({incomp} \ {NoIndex})

\* DatabaseShardImp::tune : the target sizes afterwards
tune(tg, size, comp, incomp) ==
    LET sz == calcTargetCacheSz(size, comp)
    IN  [i \in ShardIdx |->
            IF i \in held(comp, incomp) THEN [p |-> sz, n |-> sz] ELSE tg[i]]

\* DatabaseShardImp::sweep : the target sizes afterwards
sweep(tg, cacheSz, comp, incomp) ==
    LET sz == calcTargetCacheSz(cacheSz, comp)
    IN  [i \in ShardIdx |->
            IF i \in held(comp, incomp)
            THEN [tg[i] EXCEPT !.p = IF @ > sz THEN sz ELSE @]
            ELSE tg[i]]

(* ---------------- the calls as actions ---------------------------------- *)
\* DatabaseShardImp::init returns true
init ==
    /\ ~up
    /\ \E order \in Orders(found) :
          LET r == findShards(order, NoneFound)
          IN  /\ r.ok
              /\ up' = TRUE
              /\ control' = r.control
              /\ shards' = r.shards
              /\ complete_' = r.complete
              /\ incomplete_' = r.incomplete
              /\ \E full \in BOOLEAN :
                     canAdd_' = IF found = {} THEN TRUE ELSE updateStats(TRUE, full)
              /\ status_' = IF found = {} THEN status_
                            ELSE status(r.complete, status_)
              /\ targets' = made(r.shards, cacheSz_)
    /\ UNCHANGED <<threads, cacheSz_, rotating, twin, acquirer, variant, backed_, dir, backend, acked, inserted, accepted>>

\* DatabaseShardImp::init returns false, or an exception of the archive
\* leaves it: the process does not come up, and the control files the
\* shards opened so far have removed are gone
initFails ==
    /\ ~up
    /\ \E order \in Orders(found) :
          LET r == findShards(order, NoneFound)
          IN  /\ ~r.ok
              /\ control' = r.control
    /\ UNCHANGED <<threads, status_, rotating, caches, twin, acquirer, variant, backed_, up, dir, backend, shards, complete_,
                   incomplete_, canAdd_, acked, inserted, accepted>>

\* prepare; with a shard being acquired, or with canAdd_ cleared, it only
\* reads, and is no step
Prepare(validLedgerSeq, diskOk, ofsOk) ==
    /\ up
    /\ incomplete_ = NoIndex /\ canAdd_
    /\ \E pick \in IF prepareFinds(diskOk)
                   THEN findShardIndexToAdd(validLedgerSeq, complete_, incomplete_)
                   ELSE {NoIndex} :
          LET r == prepare(validLedgerSeq, diskOk, ofsOk, pick)
          IN  /\ dir' = r.dir
              /\ control' = r.control
              /\ backend' = r.backend
              /\ shards' = r.shards
              /\ incomplete_' = r.incomplete
              /\ canAdd_' = r.canAdd
              /\ targets' = made(r.shards, newShardCacheSz(cacheSz_, complete_))
    /\ UNCHANGED <<threads, cacheSz_, status_, rotating, twin, acquirer, variant, backed_, up, complete_, acked, inserted, accepted>>

\* the objects of a ledger in the order an acquirer learns their hashes:
\* the header, then each trie from its root down
acquireOrder(seq) == << LedgerInfo(seq).hash >> \o stateNodes(seq) \o txNodes(seq)

\* store, called by the acquirer of the ledger of sequence seq with an
\* object whose hash it has learnt from the objects it stored before
Store(seq, hash) ==
    /\ up
    /\ storeRoute(seq) # NoIndex
    /\ \A h \in SeqRange(PrefixBefore(acquireOrder(seq), hash)) :
          backend[storeRoute(seq)][h] # NoData
    /\ Cardinality(accepted) < MaxStores
    /\ LET r == store(seq, hash)
       IN  /\ shards' = r.shards
           /\ backend' = r.backend
    /\ accepted' = accepted \cup {<<hash, seq>>}
    /\ UNCHANGED <<threads, status_, rotating, caches, twin, acquirer, variant, backed_, up, dir, control, complete_, incomplete_,
                   canAdd_, acked, inserted>>

\* the entries of the negative and of the positive caches
negative(shs) == {<<i, h>> \in ShardIdx \X Hashes : h \in shs[i].nCache}
positive(shs) == {<<i, h>> \in ShardIdx \X Hashes : shs[i].pCache[h] # NoData}

\* fetch; a call no shard is routed for returns nothing and is no step;
\* the caches take a new entry only while they hold few
Fetch(hash, seq) ==
    /\ up
    /\ fetchRoute(seq, complete_, incomplete_) # NoIndex
    /\ LET r == fetch(hash, seq, shards, backend, complete_, incomplete_)
       IN  /\ shards' = r.shards
           /\ negative(r.shards) # negative(shards) =>
                  Cardinality(negative(r.shards)) <= MaxNegative
           /\ positive(r.shards) # positive(shards) =>
                  Cardinality(positive(r.shards)) <= MaxPositive
    /\ UNCHANGED <<threads, status_, rotating, caches, twin, acquirer, variant, backed_, up, dir, control, backend, complete_,
                   incomplete_, canAdd_, acked, inserted, accepted>>

\* DatabaseShardImp::sweep with every cache entry past its age
Sweep ==
    /\ up
    /\ shards' = [i \in ShardIdx |->
                    [shards[i] EXCEPT !.pCache = NoObjects, !.nCache = {}]]
    /\ targets' = sweep(targets, cacheSz_, complete_, incomplete_)
    /\ UNCHANGED <<threads, cacheSz_, status_, rotating, twin, acquirer, variant, backed_, up, dir, control, backend, complete_,
                   incomplete_, canAdd_, acked, inserted, accepted>>

\* DatabaseShardImp::tune
Tune(size) ==
    /\ up
    /\ cacheSz_' = size
    /\ targets' = tune(targets, size, complete_, incomplete_)
    /\ UNCHANGED <<threads, status_, rotating, twin, acquirer, variant, backed_, up, dir, control, backend, shards,
                   complete_, incomplete_, canAdd_, acked, inserted, accepted>>

\* fetch, asyncFetch (kind "caches") and fetchFrom (kind "backend") up to
\* the end of their locked block: the thread leaves the mutex with pointers
\* to the caches, or to the backend, of the shard routed for seq
TakePointers(hash, seq, kind) ==
    /\ up
    /\ reading.pc = "idle"
    /\ fetchRoute(seq, complete_, incomplete_) # NoIndex
    /\ reading' = [pc |-> "taken",
                   index |-> fetchRoute(seq, complete_, incomplete_),
                   hash |-> hash, seq |-> seq, kind |-> kind,
                   wasIncomplete |->
                       fetchRoute(seq, complete_, incomplete_) = incomplete_,
                   dead |-> FALSE]
    /\ UNCHANGED <<usedDead, status_, rotating, caches, twin, acquirer, variant, backed_, up, dir, control,
                   backend, shards, complete_, incomplete_, canAdd_, acked,
                   inserted, accepted>>

\* the thread uses the pointers without the mutex: doFetch on the caches
\* (which takes a new entry only while they hold few), fetchInternal on the
\* backend
UsePointers ==
    /\ up
    /\ reading.pc = "taken"
    /\ usedDead' = (usedDead \/ reading.dead \/ ~shards[reading.index].exists)
    /\ reading' = NoReader
    /\ LET idx == reading.index
           r == doFetch(reading.hash, reading.seq, shards[idx], backend,
                        complete_, incomplete_)
           after == [shards EXCEPT ![idx] = r.shard]
       IN  shards' = IF /\ reading.kind = "caches"
                        /\ ~reading.dead /\ shards[idx].exists
                        /\ negative(after) # negative(shards) =>
                               Cardinality(negative(after)) <= MaxNegative
                        /\ positive(after) # positive(shards) =>
                               Cardinality(positive(after)) <= MaxPositive
                     THEN after ELSE shards
    /\ UNCHANGED <<status_, rotating, caches, twin, acquirer, variant, backed_, up, dir, control, backend,
                   complete_, incomplete_, canAdd_, acked, inserted, accepted>>

\* every object of the ledger is in the backend of shard idx
haveLedger(idx, seq) == \A h \in ObjectsOf(seq) : backend[idx][h] # NoData

\* the call leaves the store as its result says; when an assert of
\* Shard::setStored has failed, that is the build without assertions, and
\* the build with assertions has aborted there, the control file untouched
apply(r) ==
    \E abort \in IF r.asserted THEN BOOLEAN ELSE {FALSE} :
        IF abort
        THEN /\ crashWith(dir, control, r.backend)
        ELSE /\ shards' = r.shards
             /\ control' = r.control
             /\ backend' = r.backend
             /\ complete_' = r.complete
             /\ incomplete_' = r.incomplete
             /\ canAdd_' = r.canAdd
             /\ status_' = r.status
             /\ reading' = IF reading.pc # "idle" /\ ~kept(reading.index, r)
                           THEN [reading EXCEPT !.dead = TRUE] ELSE reading
             /\ UNCHANGED <<usedDead, rotating, caches, twin, acquirer, variant, backed_, up, dir, acked,
                            inserted, accepted>>

\* setStored, called by the acquirer of a ledger once it has stored the
\* ledger's header and nodes
SetStored(seq, ofsOk, full) ==
    /\ up
    /\ storeRoute(seq) # NoIndex
    /\ haveLedger(storeRoute(seq), seq)
    /\ apply(setStored(seq, ofsOk, full))

\* copyLedger of a valid ledger out of another database; a call that is
\* refused at the head of copyLedger, or with a sequence that is not being
\* acquired, returns false and changes nothing, so it is no step
CopyLedger(seq, missing, ofsOk, full) ==
    /\ up
    /\ storeRoute(seq) # NoIndex
    /\ apply(copyLedgerFrom(LedgerInfo(seq), FALSE, missing, ofsOk, full))

(* ---------------- crashes ------------------------------------------------ *)
\* a crash between two calls
Crash ==
    /\ up
    /\ crashWith(dir, control, backend)

\* a crash inside the Shard::open that prepare runs on a new shard: after
\* make_Backend has created the directory and its files, either before
\* saveControl or inside it, when the file is created and still empty
CrashInOpen(validLedgerSeq, inSaveControl) ==
    /\ up
    /\ backed_
    /\ prepareFinds(TRUE)
    /\ \E idx \in findShardIndexToAdd(validLedgerSeq, complete_, incomplete_) :
          /\ idx # NoIndex
          /\ crashWith([dir EXCEPT ![idx] = TRUE],
                       [control EXCEPT ![idx] =
                           IF inSaveControl THEN TruncatedControl ELSE @],
                       backend)

\* a crash inside copyLedger after its first k writes to the backend (all
\* of them: just before Shard::setStored)
CrashInCopyLedger(seq, k) ==
    /\ up
    /\ storeRoute(seq) # NoIndex
    /\ LET idx == storeRoute(seq)
           w == copyWrites(shards[idx], seq, ZeroHash)
       IN  /\ k \in 1 .. Len(w.writes)
           /\ crashWith(dir, control,
                        [backend EXCEPT ![idx] =
                            storeObjects(shards[idx], @,
                                         SeqRange(SubSeq(w.writes, 1, k))).backend])

\* Shard::setStored on shard sh with this ledger gets to write the file
savesControl(sh, idx, seq) ==
    setStoredOf(variant, sh, idx, fdlimit, control[idx], seq, TRUE).ret #
    setStoredOf(variant, sh, idx, fdlimit, control[idx], seq, FALSE).ret

\* a crash inside the saveControl of the Shard::setStored that ends
\* copyLedger, after std::ofstream has truncated the control file and
\* before the archive is flushed into it
CrashInSaveControl(seq) ==
    /\ up
    /\ backed_
    /\ storeRoute(seq) # NoIndex
    /\ LET idx == storeRoute(seq)
           w == copyWrites(shards[idx], seq, ZeroHash)
           st == storeObjects(shards[idx], backend[idx], SeqRange(w.writes))
       IN  /\ savesControl(st.shard, idx, seq)
           /\ crashWith(dir, [control EXCEPT ![idx] = TruncatedControl],
                        [backend EXCEPT ![idx] = st.backend])

(* ---------------- shard directories from elsewhere ----------------------- *)
\* the sets of sequences a control file put into the directory of this
\* index can hold: of its range and of the two sequences around it
PlacedSeqs(index) == SUBSET ((firstSeq_(index) - 1) .. (lastSeq_(index) + 1))

\* a shard directory with its backend files appears under the path of the
\* store for an index the store does not hold, brought there by its
\* operator; withControl: a control file listing `stored` comes with it
place(index, withControl, stored) ==
    /\ backed_
    /\ ~dir[index]
    /\ index \notin complete_ /\ index # incomplete_
    /\ Cardinality({i \in ShardIdx : dir[i]}) < MaxPlaced
    /\ dir' = [dir EXCEPT ![index] = TRUE]
    /\ control' = [control EXCEPT ![index] =
                       IF withControl THEN WrittenControl(stored) ELSE NoControl]
    /\ UNCHANGED <<threads, status_, rotating, caches, twin, acquirer, variant, backed_, up, backend, shards, complete_,
                   incomplete_, canAdd_, acked, inserted, accepted>>

(* ---------------- the Shard class on its own ---------------------------- *)
\* the driver works on one shard index in a behaviour
alone(index) ==
    \A j \in ShardIdx \ {index} :
        ~dir[j] /\ ~shards[j].exists /\ acked[j] = {}

\* a Shard is constructed and opened, by init for a directory found, by
\* prepare for a new index; a shard whose open fails is dropped, and
\* prepare then removes the directory open has made
ShardOpen(index, ofsOk) ==
    /\ up
    /\ alone(index)
    /\ ~shards[index].exists
    /\ LET r == open(index, fdlimit, dir[index], control[index], ofsOk)
           removed == ~r.ok /\ ~dir[index]
       IN  /\ dir' = [dir EXCEPT ![index] = IF removed THEN FALSE ELSE r.dir]
           /\ control' = [control EXCEPT ![index] =
                              IF removed THEN NoControl ELSE r.control]
           /\ shards' = [shards EXCEPT ![index] = IF r.ok THEN r.shard ELSE NoShard]
    /\ UNCHANGED <<threads, status_, rotating, caches, twin, acquirer, variant, backed_, up, backend, complete_, incomplete_,
                   canAdd_, acked, inserted, accepted>>

\* Shard::setStored called on an open shard with a ledger whose sequence
\* maps to the shard's index
ShardSetStored(index, seq, ofsOk) ==
    /\ up
    /\ shards[index].exists
    /\ seqToShardIndex(seq) = index
    /\ LET r == setStoredOf(variant, shards[index], index, fdlimit,
                            control[index], seq, ofsOk)
       IN  \E abort \in IF r.asserted THEN BOOLEAN ELSE {FALSE} :
             IF abort
             THEN /\ crashWith(dir, control, backend)
             ELSE /\ shards' = [shards EXCEPT ![index] = r.shard]
                  /\ control' = [control EXCEPT ![index] = r.control]
                  /\ acked' = IF r.ret THEN [acked EXCEPT ![index] = @ \cup {seq}]
                              ELSE acked
                  /\ inserted' = [inserted EXCEPT ![index] = @ \cup
                         (r.shard.storedSeqs \ shards[index].storedSeqs)]
                  /\ UNCHANGED <<threads, status_, rotating, caches, twin, acquirer, variant, backed_, up, dir, backend, complete_,
                                 incomplete_, canAdd_, accepted>>

\* a crash inside Shard::open of a new shard (see CrashInOpen)
ShardCrashInOpen(index, inSaveControl) ==
    /\ up
    /\ backed_
    /\ alone(index)
    /\ ~shards[index].exists
    /\ ~dir[index]
    /\ crashWith([dir EXCEPT ![index] = TRUE],
                 [control EXCEPT ![index] =
                     IF inSaveControl THEN TruncatedControl ELSE @],
                 backend)

\* a crash inside the saveControl of Shard::setStored (see CrashInSaveControl)
ShardCrashInSaveControl(index, seq) ==
    /\ up
    /\ backed_
    /\ shards[index].exists
    /\ seqToShardIndex(seq) = index
    /\ savesControl(shards[index], index, seq)
    /\ crashWith(dir, [control EXCEPT ![index] = TruncatedControl], backend)

\* the process is started again; the shards are then opened one by one
ShardRestart ==
    /\ ~up
    /\ up' = TRUE
    /\ UNCHANGED <<threads, status_, rotating, caches, twin, acquirer, variant, backed_, dir, control, backend, shards, complete_,
                   incomplete_, canAdd_, acked, inserted, accepted>>

(* ---------------- DatabaseRotatingImp ------------------------------------ *)
shardStore == <<variant, backed_, up, dir, control, backend, shards, complete_,
                incomplete_, canAdd_, status_, acked, inserted, accepted, threads,
                caches, twin, acquirer>>

\* a rotation that leaves the archive backend in place
rotateBackends_keepsArchive(writable, archive, newBackend) ==
    [ret |-> archive, archive |-> archive, writable |-> newBackend]

\* DatabaseRotatingImp::rotateBackends on the pair (writable, archive); ret:
\* oldBackend
rotateBackends(writable, archive, newBackend) ==
    [ret |-> archive, archive |-> writable, writable |-> newBackend]

\* getBackends(): the pair of handles, taken under the lock of the store
getBackends == <<writableBackend_, archiveBackend_>>
\* getWritableBackend(): the handle, taken under the lock of the store
getWritableBackend == writableBackend_

\* Backend::store / storeBatchInternal of the objects hs into backend w
storeInto(objs, w, hs) ==
    [objs EXCEPT ![w] = [h \in Hashes |-> IF h \in hs THEN DataOf(h) ELSE @[h]]]

\* DatabaseRotatingImp::fetchFrom run with no other thread in between, on
\* the pair (writable, archive) with the backends objs and the negative
\* cache nc
rotating_fetchFrom(hash, writable, archive, objs, nc) ==
    IF objs[writable][hash] # NoData
    THEN [nObj |-> objs[writable][hash], objects |-> objs, nCache |-> nc]
    ELSE IF objs[archive][hash] # NoData
    THEN [nObj |-> objs[archive][hash],
          objects |-> storeInto(objs, writable, {hash}),
          nCache |-> nc \ {hash}]
    ELSE [nObj |-> NoData, objects |-> objs, nCache |-> nc]

\* fetchFrom returns: the thread is done, and the history takes what it
\* returned and where the object and the hash are at this moment
return(nObj, promoted, objs, nc) ==
    /\ fetching' = NoCall
    /\ returned' = [hash |-> fetching.hash, nObj |-> nObj,
                    promoted |-> promoted,
                    inWritable |-> nObj # NoData /\
                                   objs[writableBackend_][fetching.hash] = nObj,
                    negative |-> fetching.hash \in nc]

\* fetchFrom is called: Backends b = getBackends()
FetchFrom(hash) ==
    /\ fetching.pc = "idle"
    /\ fetching' = [NoCall EXCEPT !.pc = "fetchWritable", !.hash = hash,
                                   !.b = getBackends]
    /\ UNCHANGED <<shardStore, writableBackend_, archiveBackend_, objects,
                   nCache_, retired, copying, returned, pairs, wroteRetired>>

\* nObj = fetchInternal(hash, *b.writableBackend); found: return nObj
FetchWritable ==
    /\ fetching.pc = "fetchWritable"
    /\ LET nObj == objects[fetching.b[1]][fetching.hash]
       IN  IF nObj # NoData
           THEN return(nObj, FALSE, objects, nCache_)
           ELSE /\ fetching' = [fetching EXCEPT !.pc = "fetchArchive"]
                /\ UNCHANGED returned
    /\ UNCHANGED <<shardStore, writableBackend_, archiveBackend_, objects,
                   nCache_, retired, copying, pairs, wroteRetired>>

\* nObj = fetchInternal(hash, *b.archiveBackend); not found: return null
FetchArchive ==
    /\ fetching.pc = "fetchArchive"
    /\ LET nObj == objects[fetching.b[2]][fetching.hash]
       IN  IF nObj = NoData
           THEN return(NoData, FALSE, objects, nCache_)
           ELSE /\ fetching' = [fetching EXCEPT !.pc = "getWritableBackend",
                                                 !.nObj = nObj]
                /\ UNCHANGED returned
    /\ UNCHANGED <<shardStore, writableBackend_, archiveBackend_, objects,
                   nCache_, retired, copying, pairs, wroteRetired>>

\* getWritableBackend() of the promotion
FetchGetWritable ==
    /\ fetching.pc = "getWritableBackend"
    /\ fetching' = [fetching EXCEPT !.pc = "store", !.w = getWritableBackend]
    /\ UNCHANGED <<shardStore, writableBackend_, archiveBackend_, objects,
                   nCache_, retired, copying, returned, pairs, wroteRetired>>

\* ->store(nObj) on the handle taken
FetchStore ==
    /\ fetching.pc = "store"
    /\ objects' = storeInto(objects, fetching.w, {fetching.hash})
    /\ wroteRetired' = wroteRetired \cup ({fetching.w} \cap retired)
    /\ fetching' = [fetching EXCEPT !.pc = "erase"]
    /\ UNCHANGED <<shardStore, writableBackend_, archiveBackend_, nCache_,
                   retired, copying, returned, pairs>>

\* nCache_.erase(hash); return nObj
FetchErase ==
    /\ fetching.pc = "erase"
    /\ nCache_' = nCache_ \ {fetching.hash}
    /\ return(fetching.nObj, TRUE, objects, nCache_')
    /\ UNCHANGED <<shardStore, writableBackend_, archiveBackend_, objects,
                   retired, copying, pairs, wroteRetired>>

\* the batch DatabaseRotatingImp::copyLedger collects for the ledger of
\* sequence seq when srcDB.fetch finds every node but `missing`: the
\* header, the state map and the transaction map, each visited in full;
\* failed: it returns false before it stores the batch
rotating_batch(seq, missing) ==
    LET stateV == IF LedgerInfo(seq).accountHash # ZeroHash
                  THEN visitNodes(seq) ELSE << >>
        txV == IF LedgerInfo(seq).txHash # ZeroHash THEN txNodes(seq) ELSE << >>
    IN  [failed |-> missing \in SeqRange(stateV) \cup SeqRange(txV),
         batch |-> {LedgerInfo(seq).hash} \cup SeqRange(stateV) \cup SeqRange(txV)]

\* DatabaseRotatingImp::copyLedger as one call with no rotation inside it,
\* on the ledger with header info (sameDB: &srcDB == this; mapsValid:
\* isValid() of its maps), the writable backend being w: what it returns
\* and the backends afterwards
rotating_copyLedger(info, sameDB, mapsValid, missing, objs, w) ==
    LET b == rotating_batch(info.seq, missing)
    IN  IF info.accountHash = ZeroHash THEN [ret |-> FALSE, objects |-> objs]
        ELSE IF sameDB THEN [ret |-> FALSE, objects |-> objs]
        ELSE IF ~mapsValid \/ b.failed THEN [ret |-> FALSE, objects |-> objs]
        ELSE [ret |-> TRUE, objects |-> storeInto(objs, w, b.batch)]

\* DatabaseNodeImp::copyLedger, the same steps on the one backend_ (be)
DatabaseNodeImp_copyLedger(info, sameDB, mapsValid, missing, be) ==
    LET b == rotating_batch(info.seq, missing)
    IN  IF info.accountHash = ZeroHash THEN [ret |-> FALSE, backend |-> be]
        ELSE IF sameDB THEN [ret |-> FALSE, backend |-> be]
        ELSE IF ~mapsValid \/ b.failed THEN [ret |-> FALSE, backend |-> be]
        ELSE [ret |-> TRUE,
              backend |-> [h \in Hashes |->
                              IF h \in b.batch THEN DataOf(h) ELSE be[h]]]

\* copyLedger is called and gets as far as getWritableBackend(); a call
\* that fails before has only built a batch of its own and is no step
RotatingCopyLedger(seq, missing) ==
    /\ copying.pc = "idle"
    /\ ~rotating_batch(seq, missing).failed
    /\ copying' = [NoCall EXCEPT !.pc = "storeBatch", !.w = getWritableBackend]
    /\ UNCHANGED <<shardStore, writableBackend_, archiveBackend_, objects,
                   nCache_, retired, fetching, returned, pairs, wroteRetired>>

\* storeBatchInternal(batch, ...) on the handle taken; return true
StoreBatch(seq) ==
    /\ copying.pc = "storeBatch"
    /\ objects' = storeInto(objects, copying.w,
                            rotating_batch(seq, ZeroHash).batch)
    /\ wroteRetired' = wroteRetired \cup ({copying.w} \cap retired)
    /\ copying' = NoCall
    /\ UNCHANGED <<shardStore, writableBackend_, archiveBackend_, nCache_,
                   retired, fetching, returned, pairs>>

\* the owner of the store makes a new backend and, holding the lock of the
\* store, calls rotateBackends; it keeps what that returns
Rotate ==
    /\ Cardinality(retired) < MaxRotations
    /\ LET r == rotateBackends(writableBackend_, archiveBackend_,
                               writableBackend_ + 1)
       IN  /\ writableBackend_' = r.writable
           /\ archiveBackend_' = r.archive
           /\ retired' = retired \cup {r.ret}
           /\ pairs' = pairs \cup {<<r.writable, r.archive>>}
    /\ UNCHANGED <<shardStore, objects, nCache_, fetching, copying, returned,
                   wroteRetired>>

\* a fetch that found the hash in neither backend has put it into the
\* negative cache
cacheMiss(hash) ==
    /\ objects[writableBackend_][hash] = NoData
    /\ objects[archiveBackend_][hash] = NoData
    /\ hash \notin nCache_
    /\ nCache_' = nCache_ \cup {hash}
    /\ UNCHANGED <<shardStore, writableBackend_, archiveBackend_, objects,
                   retired, fetching, copying, returned, pairs, wroteRetired>>

(* ---------------- Shard::open on directories from elsewhere -------------- *)
\* the stored sequences of a control file written for a shard of 500
\* ledgers that begins at sequence 1
ExampleStored == (1 .. 200) \cup (300 .. 400)

\* a shard directory is brought in for the index the driver works on
ShardPlace(index, withControl, stored) ==
    /\ up
    /\ alone(index)
    /\ ~shards[index].exists
    /\ place(index, withControl, stored)

(* ---------------- Shard::validate -------------------------------------- *)
\* the revisions of Shard that have validate
Validating == {"part_002", "part_003"}
\* an object whose bytes do not match its key
Corrupt == <<"corrupt", "", 0>>
\* Backend::fetch : the status and the object
Backend_fetch(be, hash) ==
    IF be[hash] = NoData THEN [status |-> "notFound", nObj |-> NoData]
    ELSE IF be[hash] = Corrupt THEN [status |-> "dataCorrupt", nObj |-> NoData]
    ELSE [status |-> "ok", nObj |-> be[hash]]
\* Shard::valFetch of part_002 : the object, null unless the status is ok
valFetch(be, hash) == Backend_fetch(be, hash).nObj
\* InboundLedger::deserializeHeader and the Ledger made of it, whose hash
\* is computed from the header
deserializeHeader(data) == LedgerInfo(data[3])
\* the SHAMap of the shard family reaches the node: its fetch goes through
\* the positive cache pc of the shard and then to the backend
served(be, hash, pc) == pc[hash] # NoData \/ Backend_fetch(be, hash).status = "ok"
\* SHAMap::fetchRoot
fetchRoot(be, hash, pc) == served(be, hash, pc)
\* SHAMap::visitDifferences over the transaction trie
txDifferences(seq, have) == SelectNotIn(txNodes(seq), SeqRange(txNodes(have)))

\* the lambda f of valLedger on one node: TRUE when it sets no error
valNode(v, be, hash) ==
    IF v = "part_002" THEN valFetch(be, hash) # NoData
    ELSE Backend_fetch(be, hash).status # "dataCorrupt"

\* a visit of these nodes with f: FALSE when the visit throws at a node it
\* cannot reach or f sets error
visitOk(v, be, nodes, pc) ==
    \A i \in 1 .. Len(nodes) : served(be, nodes[i], pc) /\ valNode(v, be, nodes[i])

\* Shard::valLedger : which visit the state trie and the tx trie take;
\* next: the sequence of the ledger validated before, 0 when there is none
valWalks(v, info, next) ==
    IF v = "part_002"
    THEN [state |-> IF next # 0 /\ LedgerInfo(next).parentHash = info.hash
                    THEN "differences" ELSE "full",
          tx |-> "full"]
    ELSE [state |-> IF next # 0 THEN "differences" ELSE "full",
          tx |-> IF next # 0 THEN "differences" ELSE "full"]

\* Shard::valLedger of the ledger with header info
valLedger(v, be, info, next, pc) ==
    LET k == valWalks(v, info, next)
        stateV == IF k.state = "differences"
                  THEN visitDifferences(info.seq, next) ELSE visitNodes(info.seq)
        txV == IF k.tx = "differences"
               THEN txDifferences(info.seq, next) ELSE txNodes(info.seq)
    IN  IF (v = "part_002" /\ info.hash = ZeroHash) \/ info.accountHash = ZeroHash
        THEN FALSE
        ELSE /\ info.accountHash # ZeroHash => visitOk(v, be, stateV, pc)
             /\ info.txHash # ZeroHash => visitOk(v, be, txV, pc)

\* the sequence where the loop of validate stops: firstSeq_ in part_002,
\* detail::firstSeq(index_) in part_003
valFirstSeq(v, index) ==
    IF v = "part_002" THEN firstSeq_(index) ELSE firstSeq(index)

\* one ledger of the loop of validate passes: header, roots, valLedger
valStep(v, be, seq, hash, next, pc) ==
    LET r == Backend_fetch(be, hash)
        info == deserializeHeader(r.nObj)
    IN  /\ r.status = "ok"
        /\ r.nObj[1] = "LWR"
        /\ info.hash = hash /\ info.seq = seq
        /\ fetchRoot(be, info.accountHash, pc)
        /\ info.txHash # ZeroHash => fetchRoot(be, info.txHash, pc)
        /\ valLedger(v, be, info, next, pc)

RECURSIVE valLoop(_, _, _, _, _, _, _, _)
\* the loop of validate from (seq, hash) down: where it ends, and the
\* ledgers it has passed, highest first
valLoop(v, be, first, seq, hash, next, pc, passed) ==
    IF seq < first THEN [seq |-> seq, hash |-> hash, passed |-> passed]
    ELSE IF ~valStep(v, be, seq, hash, next, pc)
    THEN [seq |-> seq, hash |-> hash, passed |-> passed]
    ELSE valLoop(v, be, first, seq - 1, LedgerInfo(seq).parentHash, seq,
                 pc, Append(passed, seq))

\* the outcomes of the lookup of the last ledger of the shard:
\* loadLedgerHelper finds no ledger, finds the last ledger itself, finds a
\* later ledger whose skip list has the hash, or one that has not
Lookups == {"none", "exact", "later", "nohash"}

\* Shard::validate : what it reports. outcome "unable": it returns before
\* the loop; (seq, hash): where the loop ended
validate(v, index, complete, be, lookup, pc) ==
    IF lookup \in {"none", "nohash"}
    THEN [outcome |-> "unable", seq |-> 0, hash |-> ZeroHash, passed |-> << >>]
    ELSE LET first == valFirstSeq(v, index)
             r == valLoop(v, be, first, lastSeq_(index),
                          LedgerInfo(lastSeq_(index)).hash, 0, pc, << >>)
         IN  [outcome |-> IF r.seq < first THEN "valid and complete"
                          ELSE IF complete THEN "invalid"
                          ELSE "incomplete",
              seq |-> r.seq, hash |-> r.hash, passed |-> r.passed]

\* copyLedger on the shard the driver works on: the header and the nodes
\* go into its backend, then Shard::setStored
ShardCopy(index, seq, ofsOk) ==
    /\ up
    /\ shards[index].exists
    /\ ~shards[index].complete
    /\ seq \in Range(index)
    /\ LET w == copyWrites(shards[index], seq, ZeroHash)
           st == storeObjects(shards[index], backend[index], SeqRange(w.writes))
           r == setStoredOf(variant, st.shard, index, fdlimit, control[index],
                            seq, ofsOk)
       IN  \E abort \in IF r.asserted THEN BOOLEAN ELSE {FALSE} :
             IF abort
             THEN /\ crashWith(dir, control, [backend EXCEPT ![index] = st.backend])
             ELSE /\ shards' = [shards EXCEPT ![index] = r.shard]
                  /\ control' = [control EXCEPT ![index] = r.control]
                  /\ backend' = [backend EXCEPT ![index] = st.backend]
                  /\ UNCHANGED <<threads, status_, rotating, caches, twin, acquirer, variant, backed_, up, dir, complete_,
                                 incomplete_, canAdd_, acked, inserted, accepted>>

\* what the disk can make of the object under this hash: lose it, corrupt
\* it, or, for a ledger header, hold the header of another ledger
Damages(hash) ==
    {NoData, Corrupt} \cup
    (IF hash[1] = "L" THEN {HeaderData(s) : s \in Seqs \ {hash[2]}} ELSE {})

\* the backend of this shard holds whole ledgers and nothing else
undamaged(index) ==
    \A h \in Hashes :
        backend[index][h] # NoData =>
            /\ backend[index][h] = DataOf(h)
            /\ \E seq \in Seqs :
                  /\ h \in ObjectsOf(seq)
                  /\ \A o \in ObjectsOf(seq) : backend[index][o] = DataOf(o)

\* the files of the backend lose or garble one object
ShardDamage(index) ==
    /\ up
    /\ shards[index].exists
    /\ undamaged(index)
    /\ \E hash \in {h \in Hashes : backend[index][h] # NoData} :
       \E data \in Damages(hash) :
          backend' = [backend EXCEPT ![index][hash] = data]
    /\ UNCHANGED <<threads, status_, rotating, caches, twin, acquirer, variant, backed_, up, dir, control, shards,
                   complete_, incomplete_, canAdd_, acked, inserted, accepted>>

\* Shard::validate : it reports, and in part_002 leaves the caches of the
\* shard reset when it got as far as its loop
ShardValidate(index, lookup) ==
    /\ up
    /\ variant \in Validating
    /\ shards[index].exists
    /\ shards' = IF variant = "part_002" /\ lookup \in {"exact", "later"}
                 THEN [shards EXCEPT ![index].pCache = NoObjects,
                                     ![index].nCache = {}]
                 ELSE shards
    /\ UNCHANGED <<threads, status_, rotating, caches, twin, acquirer, variant, backed_, up, dir, control, backend,
                   complete_, incomplete_, canAdd_, acked, inserted, accepted>>

(* ---------------- Shard::setStored, two ways of completing ------------- *)
\* the revisions that compare the length with width - 1 before inserting
\* (part_003 inserts and then compares with the width)
ComparesBeforeInsert == {"Shard.cpp", "part_002"}

\* two new Shard objects of one index are opened, "before" of the revision
\* the behaviour runs and "after" of part_003
TwinOpen(index) ==
    LET o == open(index, fdlimit, FALSE, NoControl, TRUE)
    IN  /\ twin' = [index |-> index, called |-> {},
                    before |-> [shard |-> o.shard, control |-> o.control],
                    after |-> [shard |-> o.shard, control |-> o.control],
                    rets |-> << >>, differed |-> FALSE, refused |-> {}]
        /\ UNCHANGED <<shardStoreButTwin, rotating>>

\* the same setStored on both: a sequence of the range not passed before
TwinSetStored(seq, ofsOk) ==
    /\ twin.index # NoIndex
    /\ seq \in Range(twin.index) \ twin.called
    /\ LET b == setStoredOf(variant, twin.before.shard, twin.index,
                            fdlimit, twin.before.control, seq, ofsOk)
           a == Shard_setStored_part_003(twin.after.shard, twin.index,
                            fdlimit, twin.after.control, seq, ofsOk)
       IN  twin' = [twin EXCEPT
                      !.called = @ \cup {seq},
                      !.before = [shard |-> b.shard, control |-> b.control],
                      !.after = [shard |-> a.shard, control |-> a.control],
                      !.rets = <<b.ret, a.ret>>,
                      !.differed = @ \/ b.ret # a.ret,
                      !.refused = IF ~b.ret /\ ~a.ret THEN @ \cup {seq}
                                  ELSE @]
    /\ UNCHANGED <<shardStoreButTwin, rotating>>

(* ---------------- specifications ---------------------------------------- *)
ValidLedgerSeqs == 1 .. MaxValidLedgerSeq
\* the outcomes of the disk (space left, control file opened, space used
\* up): consulted only by a store whose backend keeps files
Disk == IF backed_ THEN BOOLEAN ELSE {TRUE}

\* the sharded store acquiring and copying ledgers, without crashes
Next ==
    \/ \E v \in ValidLedgerSeqs, diskOk \in Disk, ofsOk \in Disk :
          Prepare(v, diskOk, ofsOk)
    \/ \E seq \in Seqs : \E hash \in ObjectsOf(seq) : Store(seq, hash)
    \/ \E seq \in Seqs, ofsOk \in Disk, full \in Disk :
          SetStored(seq, ofsOk, full)
    \/ \E seq \in Seqs, ofsOk \in Disk, full \in Disk :
          \E missing \in {ZeroHash} \cup ObjectsOf(seq) :
              CopyLedger(seq, missing, ofsOk, full)

Spec == Init /\ [][Next]_vars

\* the sharded store with a thread that reads while others prepare,
\* store and copy: every block under the mutex is one step, and the use of
\* the pointers a reader took is a step of its own
NextConcurrent ==
    \/ \E v \in ValidLedgerSeqs, diskOk \in Disk, ofsOk \in Disk :
          Prepare(v, diskOk, ofsOk)
    \/ \E seq \in Seqs : \E hash \in ObjectsOf(seq) : Store(seq, hash)
    \/ \E seq \in Seqs, ofsOk \in Disk, full \in Disk :
          SetStored(seq, ofsOk, full)
    \/ \E seq \in Seqs, ofsOk \in Disk, full \in Disk :
          CopyLedger(seq, ZeroHash, ofsOk, full)
    \/ \E seq \in Range(genesisShardIndex), kind \in {"caches", "backend"} :
          TakePointers(LedgerInfo(seq).hash, seq, kind)
    \/ UsePointers

ConcurrentSpec == Init /\ [][NextConcurrent]_vars

\* the sharded store serving objects through its caches, without crashes
NextFetch ==
    \/ \E v \in ValidLedgerSeqs, diskOk \in Disk, ofsOk \in Disk :
          Prepare(v, diskOk, ofsOk)
    \/ \E seq \in Seqs : \E hash \in ObjectsOf(seq) : Store(seq, hash)
    \/ \E seq \in Seqs : \E hash \in ObjectsOf(seq) : Fetch(hash, seq)
    \/ Sweep
    \/ \E seq \in Seqs, ofsOk \in Disk, full \in Disk :
          SetStored(seq, ofsOk, full)
    \/ \E seq \in Seqs, ofsOk \in Disk, full \in Disk :
          CopyLedger(seq, ZeroHash, ofsOk, full)

FetchSpec == Init /\ [][NextFetch]_vars

\* the sharded store under crashes and restarts
NextCrash ==
    \/ init
    \/ \E v \in ValidLedgerSeqs, diskOk \in Disk, ofsOk \in Disk :
          Prepare(v, diskOk, ofsOk)
    \/ \E seq \in Seqs, ofsOk \in Disk, full \in Disk :
          CopyLedger(seq, ZeroHash, ofsOk, full)
    \/ Crash
    \/ \E v \in ValidLedgerSeqs, inSaveControl \in BOOLEAN :
          CrashInOpen(v, inSaveControl)
    \/ \E seq \in Seqs, k \in 1 .. 4 : CrashInCopyLedger(seq, k)
    \/ \E seq \in Seqs : CrashInSaveControl(seq)

CrashSpec == Init /\ [][NextCrash]_vars

\* the shards validated: the genesis shard and the one after it
ValidatedIdx == {genesisShardIndex, genesisShardIndex + 1}

\* one Shard object that takes ledgers, whose files are damaged, and that
\* is validated
NextValidate ==
    \/ \E index \in ValidatedIdx, ofsOk \in Disk : ShardOpen(index, ofsOk)
    \/ \E index \in ValidatedIdx, seq \in Seqs, ofsOk \in Disk :
          ShardCopy(index, seq, ofsOk)
    \/ \E index \in ValidatedIdx : ShardDamage(index)
    \/ \E index \in ValidatedIdx, lookup \in Lookups : ShardValidate(index, lookup)

InitValidate == Init /\ variant \in Validating

ValidateSpec == InitValidate /\ [][NextValidate]_vars

\* the sharded store acquiring ledgers while its caches are tuned and swept
NextCache ==
    \/ \E v \in ValidLedgerSeqs, diskOk \in Disk, ofsOk \in Disk :
          Prepare(v, diskOk, ofsOk)
    \/ \E seq \in Seqs, ofsOk \in Disk, full \in Disk :
          CopyLedger(seq, ZeroHash, ofsOk, full)
    \/ \E size \in CacheSizes : Tune(size)
    \/ Sweep

CacheSpec == Init /\ [][NextCache]_vars

\* the sharded store filled by copyLedger alone, without crashes
NextAcquire ==
    \/ \E v \in ValidLedgerSeqs, diskOk \in Disk, ofsOk \in Disk :
          Prepare(v, diskOk, ofsOk)
    \/ \E seq \in Seqs, ofsOk \in Disk, full \in Disk :
          \E missing \in {ZeroHash} \cup ObjectsOf(seq) :
              CopyLedger(seq, missing, ofsOk, full)

AcquireSpec == Init /\ [][NextAcquire]_vars

\* one index, two Shard objects, the same calls of setStored on both
NextTwin ==
    \/ \E index \in ShardIdx : TwinOpen(index)
    \/ \E seq \in Seqs, ofsOk \in Disk : TwinSetStored(seq, ofsOk)

InitTwin == Init /\ variant \in ComparesBeforeInsert

\* the two revisions of setStored side by side
TwinSpec == InitTwin /\ [][NextTwin]_vars

\* one Shard object, driven directly
NextShard ==
    \/ \E index \in ShardIdx, ofsOk \in Disk : ShardOpen(index, ofsOk)
    \/ \E index \in ShardIdx, seq \in Seqs, ofsOk \in Disk :
          ShardSetStored(index, seq, ofsOk)
    \/ Crash
    \/ \E index \in ShardIdx, inSaveControl \in BOOLEAN :
          ShardCrashInOpen(index, inSaveControl)
    \/ \E index \in ShardIdx, seq \in Seqs : ShardCrashInSaveControl(index, seq)
    \/ ShardRestart

ShardSpec == Init /\ [][NextShard]_vars

\* the sharded store over several shards: shards are acquired one after
\* the other by copying their ledgers, the process crashes and restarts
AllValidLedgerSeqs == 1 .. lastSeq(MaxShardIndex)

\* the control files brought in: of a shard with no ledger yet, and with
\* the sequence just below or just above the range of the index
PlacedMenu(index) ==
    {{}, {firstSeq_(index) - 1}, {lastSeq_(index) + 1}}

NextInventory ==
    \/ init
    \/ initFails
    \/ \E v \in AllValidLedgerSeqs, diskOk \in Disk, ofsOk \in Disk :
          Prepare(v, diskOk, ofsOk)
    \/ \E seq \in Seqs, full \in Disk : CopyLedger(seq, ZeroHash, TRUE, full)
    \/ Crash
    \/ \E index \in ShardIdx, withControl \in BOOLEAN :
          \E stored \in IF withControl THEN PlacedMenu(index) ELSE {{}} :
              place(index, withControl, stored)

\* the store keeps its shards in files, with the Shard of Shard.cpp
InitInventory == Init /\ backed_ = TRUE /\ variant = "Shard.cpp"

InventorySpec == InitInventory /\ [][NextInventory]_vars

\* the rotating store: a thread fetching, a thread copying a ledger and
\* the owner rotating, in any interleaving of their steps; the objects
\* fetched are the header of the ledger and the root of its state map
RotatingHashes == {LedgerInfo(RotatingSeq).hash, LedgerInfo(RotatingSeq).accountHash}

NextRotating ==
    \/ \E hash \in RotatingHashes : FetchFrom(hash)
    \/ FetchWritable
    \/ FetchArchive
    \/ FetchGetWritable
    \/ FetchStore
    \/ FetchErase
    \/ \E missing \in {ZeroHash} \cup ObjectsOf(RotatingSeq) :
          RotatingCopyLedger(RotatingSeq, missing)
    \/ StoreBatch(RotatingSeq)
    \/ Rotate
    \/ \E hash \in RotatingHashes : cacheMiss(hash)

InitRotating == Init /\ backed_ = TRUE /\ variant = "Shard.cpp"

RotatingSpec == InitRotating /\ [][NextRotating]_vars

\* one Shard object opened on directories brought in from elsewhere, with
\* any control file over the range of its index and the two sequences
\* around it, and with the control file of the 500 ledger shard
NextLoad ==
    \/ \E index \in ShardIdx, withControl \in BOOLEAN :
          \E stored \in IF withControl
                        THEN PlacedSeqs(index) \cup {ExampleStored} ELSE {{}} :
              ShardPlace(index, withControl, stored)
    \/ \E index \in ShardIdx, ofsOk \in Disk : ShardOpen(index, ofsOk)
    \/ \E index \in ShardIdx, seq \in Seqs, ofsOk \in Disk :
          ShardSetStored(index, seq, ofsOk)
    \/ Crash
    \/ ShardRestart

InitLoad == Init /\ backed_ = TRUE

LoadSpec == InitLoad /\ [][NextLoad]_vars

\* the acquirer of the incomplete shard calls prepare and keeps the
\* sequence returned; with boost::none it has nothing to acquire
AcquirerPrepare ==
    /\ up
    /\ incomplete_ # NoIndex
    /\ acquirer.pc = "prepare"
    /\ LET seq == prepare(lastSeq_(incomplete_), TRUE, TRUE, NoIndex).ret
       IN  /\ seq # 0
           /\ acquirer' = [acquirer EXCEPT !.pc = "copy", !.seq = seq]
    /\ UNCHANGED <<shardStoreButAcquirer, rotating>>

\* the acquirer calls copyLedger with the ledger of that sequence, out of
\* a database that has every node, the control file being written
AcquirerCopy(full) ==
    /\ up
    /\ acquirer.pc = "copy"
    /\ \E r \in {copyLedgerFrom(LedgerInfo(acquirer.seq), FALSE, ZeroHash,
                                TRUE, full)} :
       \E abort \in IF r.asserted THEN BOOLEAN ELSE {FALSE} :
           IF abort
           THEN /\ crashWith(dir, control, r.backend)
                /\ UNCHANGED acquirer
           ELSE /\ shards' = r.shards
                /\ control' = r.control
                /\ backend' = r.backend
                /\ complete_' = r.complete
                /\ incomplete_' = r.incomplete
                /\ canAdd_' = r.canAdd
                /\ status_' = r.status
                /\ acquirer' =
                       [pc |-> "prepare", seq |-> 0,
                        copied |-> IF r.ret
                                   THEN [acquirer.copied EXCEPT
                                            ![seqToShardIndex(acquirer.seq)] = @ + 1]
                                   ELSE acquirer.copied]
                /\ UNCHANGED <<threads, rotating, caches, twin, variant,
                               backed_, up, dir, acked, inserted, accepted>>

\* the sharded store with one acquirer at work
NextAcquirer ==
    \/ \E v \in AllValidLedgerSeqs, diskOk \in Disk, ofsOk \in Disk :
          Prepare(v, diskOk, ofsOk)
    \/ AcquirerPrepare
    \/ \E full \in Disk : AcquirerCopy(full)

AcquirerSpec == Init /\ [][NextAcquirer]_vars

\* the acquirer's two steps as seen on its own position: prepare is taken
\* when it returns a sequence, copyLedger can always be called
prepares ==
    /\ up /\ incomplete_ # NoIndex /\ acquirer.pc = "prepare"
    /\ Shard_prepare(shards[incomplete_], incomplete_) # 0
    /\ acquirer' = [acquirer EXCEPT
                       !.pc = "copy",
                       !.seq = Shard_prepare(shards[incomplete_], incomplete_)]
copies ==
    /\ up /\ acquirer.pc = "copy"
    /\ acquirer' \in
          {[pc |-> "prepare", seq |-> 0, copied |-> c] :
              c \in {acquirer.copied,
                     [acquirer.copied EXCEPT
                         ![seqToShardIndex(acquirer.seq)] = @ + 1]}}

\* the acquirer goes on for as long as it has a sequence to acquire
AcquirerLive ==
    AcquirerSpec /\ WF_acquirer(prepares) /\ WF_acquirer(copies)

(* ---------------- properties ---------------------------------------------- *)
\* C1: in every state the sharded store (with the Shard of Shard.cpp)
\* reaches through prepare, store, setStored and copyLedger, the stored sequences of the incomplete shard lie
\* in [firstSeq_, lastSeq_] of that shard; and a setStored or copyLedger
\* whose sequence maps to the shard's index but lies outside that range is
\* rejected and adds nothing.
C1_StoredSeqsInRange ==
    /\ (variant = "Shard.cpp" /\ incomplete_ # NoIndex) =>
           shards[incomplete_].storedSeqs \subseteq Range(incomplete_)
    /\ (variant = "Shard.cpp" /\ up) => \A seq \in Seqs, ofsOk \in Disk, full \in Disk :
           (storeRoute(seq) # NoIndex /\ seq \notin Range(storeRoute(seq))) =>
               LET idx == storeRoute(seq)
                   s == setStored(seq, ofsOk, full)
                   c == copyLedger(seq, ZeroHash, ofsOk, full)
               IN  /\ ~s.ret /\ ~c.ret
                   /\ s.shards[idx].storedSeqs = shards[idx].storedSeqs
                   /\ c.shards[idx].storedSeqs = shards[idx].storedSeqs

\* C2: for a store whose backend keeps files (with the Shard::open of
\* part_002 and the Shard::setStored of part_003), also after a crash at any
\* point and the restart that reopens the shards, every sequence for which
\* hasLedger is true has its header and all its state and transaction nodes
\* in the backend of its shard.
C2_HasLedgerFetchable ==
    (up /\ backed_ /\ variant = "part_003") =>
        \A seq \in Seqs :
            hasLedger(seq, shards, complete_, incomplete_) =>
                \A h \in ObjectsOf(seq) :
                    fetchFrom(h, seq, backend, complete_, incomplete_) = DataOf(h)

\* C3: for a shard kept in files by the part_003 revision, Shard::open after
\* a crash at any point yields the stored sequences last persisted: every
\* sequence whose setStored returned true is among them, unless the shard
\* reopens complete, and none is among them that setStored never inserted.
C3_ReopenExact ==
    (~up /\ backed_ /\ variant = "part_003") =>
        \A index \in ShardIdx :
            dir[index] =>
                LET r == open(index, fdlimit, dir[index], control[index], TRUE)
                IN  /\ r.shard.complete \/ acked[index] \subseteq r.shard.storedSeqs
                    /\ r.shard.storedSeqs \subseteq inserted[index]

\* C4: in every state of every shard (of Shard.cpp or part_003), after open and after any calls of
\* setStored, those made on a complete shard included, a complete shard has
\* no stored sequences and no control file.
C4_CompleteIsClean ==
    \A index \in ShardIdx :
        (variant \in {"Shard.cpp", "part_003"}
             /\ shards[index].exists /\ shards[index].complete) =>
            /\ shards[index].storedSeqs = {}
            /\ control[index].state = "absent"

\* C5: under the part_003 revision, after every successful Shard::open and
\* every Shard::setStored the control file exists if and only if the shard
\* is incomplete and its backend keeps files; with a backend that keeps no
\* files (fdlimit = 0) no control file is ever written.
C5_ControlIffIncomplete ==
    variant = "part_003" =>
        \A index \in ShardIdx :
            /\ (up /\ shards[index].exists) =>
                   (control[index].state # "absent" <=>
                        (~shards[index].complete /\ backed_))
            /\ ~backed_ => control[index].state = "absent"

\* C5 witness: a file-backed part_003 shard that setStored has taken from
\* its first ledger to complete, its control file gone
C5_Witness ==
    \E index \in ShardIdx :
        /\ variant = "part_003" /\ backed_ /\ up
        /\ shards[index].exists /\ shards[index].complete
        /\ acked[index] = Range(index)
        /\ control[index].state = "absent"

\* C6: setStored (of part_002 or part_003) completes a shard exactly at the call that stores the last
\* missing sequence of [firstSeq_, lastSeq_]: when it sets complete, every
\* sequence of the range has had a setStored that returned true on this
\* shard, restarts included; a shard is never complete while a sequence of
\* its range is unstored; and the width of the genesis shard is
\* lastSeq - genesisSeq + 1.
C6_CompleteAtLastMissing ==
    /\ numLedgers(genesisShardIndex) = lastSeq(genesisShardIndex) - GenesisSeq + 1
    /\ \A index \in ShardIdx :
           (variant \in {"part_002", "part_003"}
                /\ shards[index].exists /\ shards[index].complete) =>
               Range(index) \subseteq acked[index]
    /\ up => \A index \in ShardIdx, seq \in Seqs, ofsOk \in Disk :
           (variant \in {"part_002", "part_003"}
                /\ shards[index].exists /\ ~shards[index].complete
                /\ seqToShardIndex(seq) = index) =>
               LET r == setStoredOf(variant, shards[index], index, fdlimit,
                                    control[index], seq, ofsOk)
               IN  r.shard.complete =>
                       Range(index) \subseteq
                           (acked[index] \cup (IF r.ret THEN {seq} ELSE {}))

\* C7: when Shard::setStored(L) (of Shard.cpp or part_003) returns true, a second setStored(L) returns
\* false and leaves the stored sequences, the complete flag and the control
\* file as they were, whether the first call left the shard incomplete or
\* completed it.
C7_SecondSetStoredRejected ==
    up => \A index \in ShardIdx, seq \in Seqs :
              \A ofsOk1 \in Disk, ofsOk2 \in Disk :
        (variant \in {"Shard.cpp", "part_003"}
             /\ shards[index].exists /\ ~shards[index].complete
             /\ seqToShardIndex(seq) = index) =>
            LET first == setStoredOf(variant, shards[index], index, fdlimit,
                                     control[index], seq, ofsOk1)
                second == setStoredOf(variant, first.shard, index, fdlimit,
                                      first.control, seq, ofsOk2)
            IN  first.ret =>
                    /\ ~second.ret
                    /\ second.shard.storedSeqs = first.shard.storedSeqs
                    /\ second.shard.complete = first.shard.complete
                    /\ second.control = first.control

\* C8: whenever copyLedger (on the Shard of part_003) returns false, the incomplete shard is as it was
\* before the call: stored sequences, last stored ledger, complete flag,
\* control file and the objects of its backend are unchanged.
C8_FailedCopyChangesNothing ==
    (up /\ variant = "part_003") => \A seq \in Seqs, ofsOk \in Disk, full \in Disk :
              \A missing \in {ZeroHash} \cup ObjectsOf(seq) :
        LET r == copyLedger(seq, missing, ofsOk, full)
        IN  ~r.ret =>
                /\ r.control = control
                /\ r.backend = backend
                /\ r.complete = complete_ /\ r.incomplete = incomplete_
                /\ \A i \in ShardIdx :
                       /\ r.shards[i].storedSeqs = shards[i].storedSeqs
                       /\ r.shards[i].lastStored = shards[i].lastStored
                       /\ r.shards[i].complete = shards[i].complete

\* C9: when copyLedger(L) returns true on a store whose incomplete shard
\* held no ledgers, the header of L and every node of its state and
\* transaction tries can be fetched by (hash, L.seq), with the bytes of the
\* source.
C9_CopiedLedgerFetchable ==
    up => \A seq \in Seqs, ofsOk \in Disk, full \in Disk :
        (storeRoute(seq) # NoIndex
             /\ shards[storeRoute(seq)].storedSeqs = {}
             /\ shards[storeRoute(seq)].lastStored = 0) =>
            LET r == copyLedger(seq, ZeroHash, ofsOk, full)
            IN  r.ret =>
                    \A h \in ObjectsOf(seq) :
                        fetch(h, seq, r.shards, r.backend, r.complete,
                              r.incomplete).data = DataOf(h)

\* C9 witness: copyLedger has put a first ledger, one with transactions,
\* into the incomplete shard, store() having taken no object
C9_Witness ==
    \E seq \in Seqs :
        /\ up /\ accepted = {} /\ HasTx(seq)
        /\ storeRoute(seq) # NoIndex
        /\ shards[storeRoute(seq)].storedSeqs = {seq}
        /\ shards[storeRoute(seq)].lastStored = seq
        /\ \A h \in ObjectsOf(seq) :
               fetch(h, seq, shards, backend, complete_, incomplete_).data =
                   DataOf(h)

\* C10: every object store() has accepted is returned with the same bytes
\* by every later fetch(hash, seq), whatever store, setStored, copyLedger
\* and prepare calls follow, also once the shard has completed and moved
\* from the incomplete slot into the complete map.
C10_AcceptedStaysFetchable ==
    up => \A a \in accepted :
              fetch(a[1], a[2], shards, backend, complete_,
                    incomplete_).data = DataOf(a[1])

\* C10 witness: the shard of an accepted object has completed and its
\* caches have been swept, so the object comes from the backend of a
\* shard in the complete map
C10_Witness ==
    \E a \in accepted :
        /\ up
        /\ seqToShardIndex(a[2]) \in complete_
        /\ shards[seqToShardIndex(a[2])].pCache[a[1]] = NoData
        /\ fetch(a[1], a[2], shards, backend, complete_,
                 incomplete_).data = DataOf(a[1])

\* the directories on disk whose Shard::open yields an incomplete shard
incompleteOnDisk ==
    {i \in found :
        LET r == open(i, fdlimit, dir[i], control[i], TRUE)
        IN  r.ok /\ ~r.shard.complete}

\* C11: in every state of the sharded store at most one shard in memory is
\* incomplete, every shard in memory is owned exactly once (a key of the
\* complete map or the incomplete slot, never both), and the index in the
\* incomplete slot is no key of the complete map, whatever prepare,
\* setStored and copyLedger calls, crashes and restarts led there; and init
\* returns false, in whatever order it visits the directories, when more
\* than one of them opens as an incomplete shard.
C11_OneIncomplete ==
    /\ incomplete_ # NoIndex => incomplete_ \notin complete_
    /\ Cardinality({i \in ShardIdx :
                        shards[i].exists /\ ~shards[i].complete}) <= 1
    /\ \A i \in ShardIdx :
           shards[i].exists <=> (i \in complete_ \/ i = incomplete_)
    /\ (~up /\ Cardinality(incompleteOnDisk) > 1) =>
           \A order \in Orders(found) : ~findShards(order, NoneFound).ok

\* C11 witness: the process is down with two directories on disk that
\* each open as an incomplete shard, a third one being complete, and init
\* refuses them in every order
C11_Witness ==
    /\ ~up
    /\ Cardinality(incompleteOnDisk) = 2
    /\ \E i \in found : open(i, fdlimit, dir[i], control[i], TRUE).shard.complete
    /\ \A order \in Orders(found) : ~findShards(order, NoneFound).ok

\* findShardIndexToAdd(validLedgerSeq) gets to drawing samples: it has not
\* returned boost::none for a full inventory, and has not enumerated
sampled(validLedgerSeq) ==
    LET idx0 == seqToShardIndex(validLedgerSeq)
        maxShardIndex == IF validLedgerSeq # lastSeq(idx0)
                         THEN Uint32Dec(idx0) ELSE idx0
        numShards == Cardinality(complete_) +
                     (IF incomplete_ # NoIndex THEN 1 ELSE 0)
    IN  /\ numShards < Uint32Inc(maxShardIndex)
        /\ ~(maxShardIndex < DenseLimit \/ 2 * numShards > maxShardIndex)

\* C12: in every reachable inventory and for every validLedgerSeq, an index
\* findShardIndexToAdd returns, whether it enumerates the free indexes or
\* samples, and whatever rand_int draws, is no key of the complete map and
\* not the index of the incomplete shard.
C12_AddedIndexNotOwned ==
    \A validLedgerSeq \in AllValidLedgerSeqs :
        \A r \in findShardIndexToAdd(validLedgerSeq, complete_, incomplete_) :
            r # NoIndex => (r \notin complete_ /\ r # incomplete_)

\* C12 witness: an inventory of one complete shard, as prepare hands it to
\* findShardIndexToAdd, in which one validLedgerSeq makes it enumerate and
\* another makes it sample, the owned index among those it can draw, and
\* both return a free index
C12_Witness ==
    /\ up /\ complete_ # {} /\ incomplete_ = NoIndex
    /\ \E validLedgerSeq \in AllValidLedgerSeqs :
           /\ ~sampled(validLedgerSeq)
           /\ \E r \in findShardIndexToAdd(validLedgerSeq, complete_, incomplete_) :
                  r # NoIndex
    /\ \E validLedgerSeq \in AllValidLedgerSeqs :
           /\ sampled(validLedgerSeq)
           /\ \E r \in findShardIndexToAdd(validLedgerSeq, complete_, incomplete_) :
                  r # NoIndex
           /\ NoIndex \in findShardIndexToAdd(validLedgerSeq, complete_, incomplete_)

\* C13: whenever the fetchFrom of the rotating store has missed the
\* writable backend and hit the archive backend, at its return the object
\* is in the backend that is then the writable one of the store and the
\* hash is not in the negative cache (so that the next fetch of the hash
\* finds it in the writable backend), also when rotations run between the
\* steps of that fetchFrom.
C13_PromotedToWritable ==
    returned.promoted =>
        /\ returned.nObj = DataOf(returned.hash)
        /\ returned.inWritable
        /\ ~returned.negative

\* C14: rotateBackends(new) returns the archive backend, makes the writable
\* backend the archive and new the writable one; so an object that is in
\* the writable backend only is found by fetchFrom after one rotation, and
\* is not found after two rotations with no fetch in between.
C14_ExpelledAfterTwoRotations ==
    LET w == writableBackend_
        a == archiveBackend_
        r1 == rotateBackends(w, a, w + 1)
        r2 == rotateBackends(r1.writable, r1.archive, w + 2)
    IN  /\ r1.ret = a /\ r1.archive = w /\ r1.writable = w + 1
        /\ \A hash \in ObjectsOf(RotatingSeq) :
               (objects[w][hash] # NoData /\ objects[a][hash] = NoData) =>
                   /\ rotating_fetchFrom(hash, r1.writable, r1.archive,
                                         objects, nCache_).nObj = DataOf(hash)
                   /\ rotating_fetchFrom(hash, r2.writable, r2.archive,
                                         objects, nCache_).nObj = NoData

\* C14 witness: the store has rotated twice, and an object that copyLedger
\* had put into the first writable backend, never fetched, is now in a
\* retired backend only and fetchFrom does not find it
C14_Witness ==
    /\ Cardinality(retired) = 2
    /\ returned = NoReturn /\ fetching = NoCall
    /\ \E hash \in RotatingHashes :
           /\ objects[1][hash] # NoData
           /\ objects[writableBackend_][hash] = NoData
           /\ objects[archiveBackend_][hash] = NoData
           /\ rotating_fetchFrom(hash, writableBackend_, archiveBackend_,
                                 objects, nCache_).nObj = NoData

\* C15: in every interleaving of fetchFrom, copyLedger and rotations, the
\* pair of backends a fetchFrom works on is a pair the store had at one
\* moment, never one with the same backend twice, and no object is written
\* into a backend after rotateBackends has returned it.  (A call reaches a
\* backend only through a handle it holds, which keeps the backend alive.)
C15_RotationAtomicForCalls ==
    /\ fetching.pc # "idle" =>
           (fetching.b \in pairs /\ fetching.b[1] # fetching.b[2])
    /\ wroteRetired = {}

\* the sequences of the range of this shard that are not stored
missingSeqs(index) == Range(index) \ shards[index].storedSeqs

\* C16: Shard::prepare on an incomplete shard returns lastSeq_ when no
\* sequence is stored and otherwise the greatest sequence of
\* [firstSeq_, lastSeq_] that is not stored; what it returns lies in
\* [firstSeq_, lastSeq_] and is never a sequence hasLedger is true for.
C16_PrepareGreatestMissing ==
    \A index \in ShardIdx :
        (shards[index].exists /\ ~shards[index].complete) =>
            LET seq == Shard_prepare(shards[index], index)
            IN  /\ shards[index].storedSeqs = {} => seq = lastSeq_(index)
                /\ shards[index].storedSeqs # {} =>
                       /\ seq \in missingSeqs(index)
                       /\ \A other \in missingSeqs(index) : other <= seq
                /\ seq \in Range(index)
                /\ ~Shard_hasLedger(shards[index], index, seq)

\* C16 witness: an incomplete shard that holds its last sequence, so that
\* prepare returns a sequence below lastSeq_
C16_Witness ==
    \E index \in ShardIdx :
        /\ shards[index].exists /\ ~shards[index].complete
        /\ lastSeq_(index) \in shards[index].storedSeqs
        /\ Shard_prepare(shards[index], index) \in Range(index)
        /\ Shard_prepare(shards[index], index) < lastSeq_(index)

\* the control file of the example is on disk in the directory of index
exampleOnDisk(index) ==
    /\ dir[index]
    /\ control[index].state = "written"
    /\ control[index].text = << <<1, 200>>, <<300, 400>> >>

\* C17 as stated: a shard with range [1, 500] opened on a control file
\* that holds the stored sequences [1..200, 300..400] opens, and its
\* prepare() then returns 299.
C17_PrepareReturns299 ==
    \A index \in ShardIdx :
        exampleOnDisk(index) =>
            LET r == openRange(1, 500, 500, 1, dir[index], control[index], TRUE)
            IN  /\ r.ok
                /\ prepareRange(r.shard.storedSeqs, 1, 500) = 299

\* C17 amended: a shard with range [1, 500] opened on a control file that
\* holds the stored sequences [1..200, 300..400] opens, incomplete, with
\* exactly those sequences stored, and its prepare() then returns 500, the
\* greatest sequence of the range that is not stored.
C17_PrepareReturns500 ==
    \A index \in ShardIdx :
        exampleOnDisk(index) =>
            LET r == openRange(1, 500, 500, 1, dir[index], control[index], TRUE)
            IN  /\ r.ok /\ ~r.shard.complete
                /\ r.shard.storedSeqs = ExampleStored
                /\ prepareRange(r.shard.storedSeqs, 1, 500) = 500

\* C17 witness: the control file of the example is on disk, and a shard
\* with range [1, 500] opens on it and prepares sequence 500
C17_Witness ==
    \E index \in ShardIdx :
        /\ exampleOnDisk(index)
        /\ LET r == openRange(1, 500, 500, 1, dir[index], control[index], TRUE)
           IN  r.ok /\ prepareRange(r.shard.storedSeqs, 1, 500) = 500

\* what the claim says hasLedger answers for the shard sh with this index
inShard(sh, index, seq) ==
    /\ seq \in Range(index)
    /\ sh.complete \/ seq \in sh.storedSeqs

\* C18: hasLedger(seq) is true exactly when seq lies in [firstSeq, lastSeq]
\* of the shard that owns shardIndex(seq) and that shard is complete or has
\* seq in storedSeqs, for Shard::hasLedger of every open shard and for
\* DatabaseShardImp::hasLedger, also for the sequences below genesisSeq
\* that map to the index of the genesis shard.
C18_HasLedgerExactly ==
    /\ \A index \in ShardIdx, seq \in Seqs :
          shards[index].exists =>
              (Shard_hasLedger(shards[index], index, seq)
                   <=> inShard(shards[index], index, seq))
    /\ \A seq \in Seqs :
          up =>
              (hasLedger(seq, shards, complete_, incomplete_)
                   <=> /\ seqToShardIndex(seq) \in
                             owned(MaxShardIndex, complete_, incomplete_)
                       /\ inShard(shards[seqToShardIndex(seq)],
                                  seqToShardIndex(seq), seq))

\* the directory of index holds a control file with a sequence outside
\* the range of the shard
invalidControl(index) ==
    /\ dir[index]
    /\ control[index].state = "written"
    /\ \E seq \in ParseIntervals(control[index].text) :
           seq < firstSeq_(index) \/ seq > lastSeq_(index)

\* C19: Shard::open fails when the control file contains a sequence below
\* firstSeq or above lastSeq, and a shard whose open failed is not
\* installed in the inventory: init, over any order of the directories it
\* finds, returns false, with the shard neither complete nor incomplete;
\* prepare of an index whose open fails leaves the incomplete slot empty,
\* removes the directory and returns none.
C19_FailedOpenNotInstalled ==
    /\ \A index \in ShardIdx :
          invalidControl(index) =>
              ~open(index, fdlimit, dir[index], control[index], TRUE).ok
    /\ ~up =>
          \A order \in Orders(found) :
              LET r == findShards(order, NoneFound)
              IN  \A i \in found :
                      invalidControl(i) =>
                          ~r.ok /\ i \notin r.complete /\ r.incomplete # i
    /\ up =>
          \A validLedgerSeq \in AllValidLedgerSeqs, ofsOk \in Disk :
              prepareFinds(TRUE) =>
                  \A pick \in findShardIndexToAdd(validLedgerSeq, complete_,
                                                  incomplete_) \ {NoIndex} :
                      ~open(pick, fdlimit, dir[pick], control[pick], ofsOk).ok =>
                          LET r == prepare(validLedgerSeq, TRUE, ofsOk, pick)
                          IN  /\ r.ret = 0
                              /\ r.incomplete = NoIndex
                              /\ r.shards = shards
                              /\ ~r.dir[pick]

\* C19 witness: the store is up with no shard being acquired, the index
\* prepare picks has a directory whose control file holds a sequence above
\* lastSeq, and prepare returns none with the slot empty
C19_Witness ==
    /\ up /\ prepareFinds(TRUE)
    /\ \E validLedgerSeq \in AllValidLedgerSeqs :
          \E pick \in findShardIndexToAdd(validLedgerSeq, complete_,
                                          incomplete_) \ {NoIndex} :
              /\ invalidControl(pick)
              /\ lastSeq_(pick) + 1 \in ParseIntervals(control[pick].text)
              /\ prepare(validLedgerSeq, TRUE, TRUE, pick).ret = 0
              /\ prepare(validLedgerSeq, TRUE, TRUE, pick).incomplete = NoIndex

\* the set of sequences the control file of index lists
listed(index) == ParseIntervals(control[index].text)

\* C20: Shard::open on a non-empty directory of a file-backed backend:
\* with no control file the shard becomes complete with storedSeqs empty;
\* with a control file that lists as many sequences as the range of the
\* shard has (from genesisSeq on for the genesis shard), all inside the
\* range, the control file is removed and the shard becomes complete with
\* storedSeqs empty; with any other control file inside the range the
\* shard stays incomplete, storedSeqs is the set of the file and the file
\* stays.
C20_OpenOnExistingDirectory ==
    \A index \in ShardIdx :
        dir[index] /\ fdlimit # 0 =>
            LET r == open(index, fdlimit, dir[index], control[index], TRUE)
            IN  /\ control[index].state = "absent" =>
                      /\ r.ok /\ r.shard.complete
                      /\ r.shard.storedSeqs = {}
                /\ (/\ control[index].state = "written"
                    /\ listed(index) \subseteq Range(index)
                    /\ Cardinality(listed(index)) = Cardinality(Range(index))) =>
                      /\ r.ok /\ r.shard.complete
                      /\ r.shard.storedSeqs = {}
                      /\ r.control = NoControl
                /\ (/\ control[index].state = "written"
                    /\ listed(index) \subseteq Range(index)
                    /\ Cardinality(listed(index)) # Cardinality(Range(index))) =>
                      /\ r.ok /\ ~r.shard.complete
                      /\ r.shard.storedSeqs = listed(index)
                      /\ r.control = control[index]

\* C20 witness: a directory of the genesis shard whose control file lists
\* every sequence from genesisSeq to the last one of the shard is on disk
\* with no Shard open on it, and open on it completes the shard, stores
\* nothing and removes the control file
C20_Witness ==
    /\ dir[genesisShardIndex] /\ ~shards[genesisShardIndex].exists
    /\ control[genesisShardIndex].state = "written"
    /\ listed(genesisShardIndex) = Range(genesisShardIndex)
    /\ LET r == open(genesisShardIndex, fdlimit, TRUE,
                     control[genesisShardIndex], TRUE)
       IN  r.ok /\ r.shard.complete /\ r.shard.storedSeqs = {}
                /\ r.control = NoControl

\* what findShardIndexToAdd could hand to prepare, were it called
Picks == ShardIdx \cup {NoIndex}

\* C21: when an incomplete shard exists, DatabaseShardImp::prepare returns
\* that shard's prepare() for every validLedgerSeq, whatever canAdd_ and the
\* disk budget are, and leaves the shards, the disk, the incomplete slot and
\* canAdd_ as they were (the complete map is not among the things it can
\* change).
C21_PrepareWithIncomplete ==
    (up /\ incomplete_ # NoIndex) =>
        \A validLedgerSeq \in AllValidLedgerSeqs, diskOk \in Disk,
           ofsOk \in Disk, pick \in Picks :
            LET r == prepare(validLedgerSeq, diskOk, ofsOk, pick)
            IN  /\ r.ret = Shard_prepare(shards[incomplete_], incomplete_)
                /\ r.incomplete = incomplete_
                /\ r.canAdd = canAdd_
                /\ r.shards = shards
                /\ r.dir = dir /\ r.control = control /\ r.backend = backend

\* C21 witness: a shard is being acquired, canAdd_ is false, and prepare
\* for a sequence that is not the last of its shard returns a sequence of
\* the incomplete shard
C21_Witness ==
    /\ up /\ incomplete_ # NoIndex /\ ~canAdd_
    /\ shards[incomplete_].storedSeqs # {}
    /\ prepare(lastSeq(MaxShardIndex) - 1, FALSE, TRUE, NoIndex).ret
           \in Range(incomplete_)

DiskSizes == 0 .. MaxDisk

\* C22: for a file-backed store with no incomplete shard, prepare creates
\* no shard when usedDiskSpace + avgShardSz > maxDiskSpace or when the free
\* disk space is below avgShardSz: it returns none, canAdd_ is false
\* afterwards, and shards, directories, control files, backends and the
\* incomplete slot are as before.
C22_BudgetRefuses ==
    (up /\ backed_ /\ incomplete_ = NoIndex) =>
        \A usedDiskSpace \in DiskSizes, avgShardSz \in DiskSizes,
           maxDiskSpace \in DiskSizes, free \in DiskSizes :
            (usedDiskSpace + avgShardSz > maxDiskSpace \/ free < avgShardSz) =>
                \A validLedgerSeq \in ValidLedgerSeqs, pick \in Picks :
                    LET r == prepare(validLedgerSeq,
                                     diskBudget(usedDiskSpace, avgShardSz,
                                                maxDiskSpace, free),
                                     TRUE, pick)
                    IN  /\ r.ret = 0
                        /\ ~r.canAdd
                        /\ r.incomplete = NoIndex
                        /\ r.shards = shards
                        /\ r.dir = dir /\ r.control = control
                        /\ r.backend = backend

\* C22 witness: a file-backed store that has completed a shard and may add
\* another; with room in the budget and too little free space prepare
\* returns none and clears canAdd_, while with room in both it would
\* create a shard
C22_Witness ==
    /\ up /\ backed_ /\ incomplete_ = NoIndex /\ canAdd_
    /\ complete_ # {}
    /\ \E pick \in ShardIdx \ complete_ :
          /\ prepare(MaxValidLedgerSeq, diskBudget(0, 1, MaxDisk, 0),
                     TRUE, pick).ret = 0
          /\ ~prepare(MaxValidLedgerSeq, diskBudget(0, 1, MaxDisk, 0),
                      TRUE, pick).canAdd
          /\ prepare(MaxValidLedgerSeq, diskBudget(0, 1, MaxDisk, 1),
                     TRUE, pick).incomplete = pick

\* the shard that owns the index of seq as C23 words it: the complete
\* shard with that index, else the incomplete one if its index matches
owner(seq) ==
    IF seqToShardIndex(seq) \in complete_ THEN seqToShardIndex(seq)
    ELSE IF incomplete_ = seqToShardIndex(seq) THEN incomplete_
    ELSE NoIndex

\* C23: fetch, asyncFetch and fetchFrom for (hash, seq) read only from the
\* shard that owns shardIndex(seq).  With an owner, fetchFrom returns what
\* the owner's backend holds, fetch answers from the owner's caches and
\* then its backend and changes the caches of no other shard, asyncFetch
\* answers from the owner's caches or posts a read on them.  With no owner
\* fetch and fetchFrom return nothing, asyncFetch returns false and posts
\* no read, and no cache is changed.
C23_FetchFromOwner ==
    up =>
    \A seq \in Seqs :
        \A hash \in ObjectsOf(seq) \cup ObjectsOf(GenesisSeq) :
            LET f == fetch(hash, seq, shards, backend, complete_, incomplete_)
                a == asyncFetch(hash, seq, shards, complete_, incomplete_)
                b == fetchFrom(hash, seq, backend, complete_, incomplete_)
                o == owner(seq)
            IN  IF o = NoIndex
                THEN /\ f.data = NoData /\ f.shards = shards
                     /\ b = NoData
                     /\ ~a.ret /\ a.object = NoData /\ a.posted = NoIndex
                ELSE /\ b = backend[o][hash]
                     /\ f.data = IF shards[o].pCache[hash] # NoData
                                 THEN shards[o].pCache[hash]
                                 ELSE IF hash \in shards[o].nCache THEN NoData
                                 ELSE backend[o][hash]
                     /\ \A j \in ShardIdx \ {o} : f.shards[j] = shards[j]
                     /\ a.ret <=> (shards[o].pCache[hash] # NoData
                                      \/ hash \in shards[o].nCache)
                     /\ a.object = shards[o].pCache[hash]
                     /\ a.posted \in {NoIndex, o}

\* C23 witness: a complete shard and an incomplete shard with a ledger; the
\* header of that ledger is fetched from the incomplete shard, and a
\* sequence of an index no shard owns fetches nothing
C23_Witness ==
    /\ up /\ complete_ # {} /\ incomplete_ # NoIndex
    /\ \E seq \in shards[incomplete_].storedSeqs :
          /\ owner(seq) = incomplete_
          /\ fetchFrom(LedgerInfo(seq).hash, seq, backend, complete_,
                       incomplete_) = HeaderData(seq)
          /\ fetch(LedgerInfo(seq).hash, seq, shards, backend, complete_,
                   incomplete_).data = HeaderData(seq)
    /\ \E seq \in Seqs : owner(seq) = NoIndex

\* C24: store(type, data, hash, seq) with no incomplete shard, or with
\* shardIndex(seq) different from the index of the incomplete shard, takes
\* nothing and changes nothing: every shard (storedSeqs, positive and
\* negative cache) and every backend is as before; store has no result and
\* cannot change the inventory.
C24_StoreElsewhereDropped ==
    up =>
    \A seq \in Seqs, hash \in Hashes :
        (incomplete_ = NoIndex \/ seqToShardIndex(seq) # incomplete_) =>
            /\ ~store(seq, hash).ok
            /\ store(seq, hash).shards = shards
            /\ store(seq, hash).backend = backend

\* C24 witness: the genesis shard is complete, no shard is being acquired,
\* and the header of the genesis ledger, which the shard holds, is handed
\* to store again and dropped
C24_Witness ==
    /\ up /\ incomplete_ = NoIndex
    /\ genesisShardIndex \in complete_
    /\ backend[genesisShardIndex][LedgerInfo(GenesisSeq).hash] # NoData
    /\ shards[genesisShardIndex].pCache[<<"T", GenesisSeq>>] = NoData
    /\ ~store(GenesisSeq, <<"T", GenesisSeq>>).ok
    /\ store(GenesisSeq, <<"T", GenesisSeq>>).shards = shards

\* the result r of a call has stored nothing and changed nothing
nothingStored(r) ==
    /\ r.shards = shards /\ r.backend = backend /\ r.control = control
    /\ r.complete = complete_ /\ r.incomplete = incomplete_
    /\ r.canAdd = canAdd_

item(run) ==
    IF run[1] = run[2] THEN ToString(run[1])
    ELSE ToString(run[1]) \o "-" \o ToString(run[2])

RECURSIVE joined(_)
\* the items of the runs, with commas between them
joined(runs) ==
    IF runs = << >> THEN ""
    ELSE IF Len(runs) = 1 THEN item(Head(runs))
    ELSE item(Head(runs)) \o "," \o joined(Tail(runs))

\* the canonical range encoding of a set of indexes: its maximal runs in
\* ascending order
canonical(S) == joined(Intervals(S))

\* indexes beyond those the store holds, for which the loop of updateStats
\* is run as though they were complete too
StatusIndexes == (MaxShardIndex + 1) .. (MaxShardIndex + 3)

\* C26: in every state of the running store the string getCompleteShards
\* returns is the canonical range encoding of the keys of complete_
\* (ascending, each maximal run "a-b", each single index "a", joined by
\* commas), so it has followed every shard that became complete; the loop
\* of updateStats gives that encoding also with further shards complete,
\* and it turns {0,1,2,3,5,7,8,9} into "0-3,5,7-9".
C26_StatusIsCanonical ==
    /\ up => getCompleteShards = canonical(complete_)
    /\ up => \A more \in SUBSET StatusIndexes :
                 status(complete_ \cup more, status_)
                     = canonical(complete_ \cup more)
    /\ status({0, 1, 2, 3, 5, 7, 8, 9}, "") = "0-3,5,7-9"

\* C26 witness: two shards that are not neighbours are complete, one of
\* them completed by copyLedger in this run, and the string names both
C26_Witness ==
    /\ up /\ complete_ = {genesisShardIndex, genesisShardIndex + 2}
    /\ \E index \in complete_ : shards[index].lastStored # 0
    /\ getCompleteShards = ToString(genesisShardIndex) \o ","
                               \o ToString(genesisShardIndex + 2)

\* C27: storedSeqs, the complete flag and the inventory are read and
\* written inside the blocks under the mutex only (each is one step), and
\* in every interleaving of fetch, asyncFetch and fetchFrom with prepare,
\* store, setStored and copyLedger the pointers a reader took under the
\* mutex are pointers into a Shard that is still alive, and still the
\* shard routed for the sequence, when the reader uses them.
C27_PointersStayValid ==
    /\ ~usedDead
    /\ reading.pc = "taken" =>
          /\ ~reading.dead
          /\ shards[reading.index].exists
          /\ fetchRoute(reading.seq, complete_, incomplete_) = reading.index

\* C27 witness: a reader took its pointers from the incomplete shard, and
\* before it uses them the shard has completed and moved into complete_
C27_Witness ==
    /\ reading.pc = "taken" /\ reading.wasIncomplete
    /\ reading.index \in complete_
    /\ incomplete_ = NoIndex

\* the indexes the genesis shard can have: that of the model's genesisSeq,
\* and the next one, as in the program, where the genesis shard is shard 1
GenesisIndexes == genesisShardIndex .. (genesisShardIndex + 1)

\* maxIdx of C28: shardIndex(validSeq), one less when validSeq is not the
\* last sequence of its shard
maxIdx(validLedgerSeq) ==
    IF validLedgerSeq = lastSeq(seqToShardIndex(validLedgerSeq))
    THEN seqToShardIndex(validLedgerSeq)
    ELSE seqToShardIndex(validLedgerSeq) - 1

\* C28: any index findShardIndexToAdd(validSeq) returns lies in
\* [genesisShardIndex, maxIdx]; the shard that contains a validSeq which is
\* not the last of its shard is never returned, also when validSeq lies in
\* shard 0 or in the genesis shard.  Stated for the layout of the model and
\* for one whose genesis shard is the next index, over the inventories
\* that hold no shard below the genesis shard.
C28_AddedIndexInRange ==
    up =>
    \A genesis \in GenesisIndexes, validLedgerSeq \in AllValidLedgerSeqs :
        (\A i \in complete_ \cup ({incomplete_} \ {NoIndex}) : i >= genesis) =>
            \A index \in findShardIndexToAddFrom(genesis, validLedgerSeq,
                                                 complete_, incomplete_)
                             \ {NoIndex} :
                /\ genesis <= index
                /\ index <= maxIdx(validLedgerSeq)

\* the call with result r has recorded seq in shard idx: in storedSeqs, as
\* the ledger last stored, or by rewriting or deleting the control file
recorded(r, idx, seq) ==
    \/ seq \in r.shards[idx].storedSeqs \ shards[idx].storedSeqs
    \/ r.shards[idx].lastStored # shards[idx].lastStored
    \/ r.shards[idx].complete # shards[idx].complete
    \/ r.control[idx] # control[idx]

\* C29: a copyLedger that records its sequence in the incomplete shard
\* (storedSeqs, last stored ledger, control file) has fetched every node it
\* visits and written the header and all of them to the backend of the
\* shard; the shard moves into the complete map only in a call whose
\* Shard::setStored returned true and left it complete; and at every point
\* of every execution of copyLedger, a crash inside it included, each
\* sequence listed in a control file or in storedSeqs has its header and
\* nodes in the backend of that shard.
C29_WrittenBeforeStored ==
    /\ up => \A seq \in Seqs, ofsOk \in Disk, full \in Disk :
                 \A missing \in {ZeroHash} \cup ObjectsOf(seq) :
           storeRoute(seq) # NoIndex =>
               LET idx == storeRoute(seq)
                   w == copyWrites(shards[idx], seq, missing)
                   r == copyLedger(seq, missing, ofsOk, full)
               IN  /\ recorded(r, idx, seq) =>
                          /\ ~w.failed
                          /\ \A h \in SeqRange(w.writes) :
                                 r.backend[idx][h] = DataOf(h)
                   /\ idx \in r.complete \ complete_ =>
                          /\ r.ret /\ r.shards[idx].complete
                          /\ r.incomplete = NoIndex
                   /\ r.complete \ complete_ \subseteq {idx}
    /\ backed_ => \A idx \in ShardIdx : \A seq \in listed(idx) :
           \A h \in ObjectsOf(seq) : backend[idx][h] = DataOf(h)
    /\ up => \A idx \in ShardIdx : \A seq \in shards[idx].storedSeqs :
           \A h \in ObjectsOf(seq) : backend[idx][h] = DataOf(h)

\* C29 witness: copyLedger has recorded a ledger with transactions in the
\* incomplete shard of a store that keeps files: the sequence is in
\* storedSeqs and in the control file, header and nodes are in the backend
C29_Witness ==
    \E seq \in Seqs :
        /\ up /\ backed_ /\ HasTx(seq)
        /\ incomplete_ # NoIndex /\ incomplete_ = seqToShardIndex(seq)
        /\ seq \in shards[incomplete_].storedSeqs
        /\ shards[incomplete_].lastStored = seq
        /\ seq \in listed(incomplete_)
        /\ \A h \in ObjectsOf(seq) : backend[incomplete_][h] = DataOf(h)

\* the nodes of the state trie, and of the tx trie, among the objects
\* written, in the order written
stateWalk(writes) == SelectSeq(writes, LAMBDA h : h[1] \in {"S", "A"})
txWalk(writes) == SelectSeq(writes, LAMBDA h : h[1] = "T")
\* the incomplete shard sh has a ledger last stored, and the ledger of
\* sequence seq is its parent
parentOfLastStored(sh, seq) ==
    /\ sh.lastStored # 0
    /\ LedgerInfo(sh.lastStored).parentHash = LedgerInfo(seq).hash

\* C30: copyLedger of a ledger whose nodes the source all has walks the
\* difference of the state trie with that of the shard's last stored ledger
\* exactly when there is such a ledger and the copied ledger is its parent,
\* and walks the whole state trie otherwise: with no last stored ledger (a
\* new shard, a shard reopened after a restart) and with one that is not the
\* successor; the transaction trie is walked whole in either case.
C30_DifferenceOnlyFromParent ==
    /\ up => \A seq \in Seqs :
           storeRoute(seq) # NoIndex =>
               LET sh == shards[storeRoute(seq)]
                   w == copyWrites(sh, seq, ZeroHash)
               IN  /\ ~w.failed
                   /\ Head(w.writes) = LedgerInfo(seq).hash
                   /\ parentOfLastStored(sh, seq) =>
                          stateWalk(w.writes) = visitDifferences(seq, sh.lastStored)
                   /\ ~parentOfLastStored(sh, seq) =>
                          stateWalk(w.writes) = stateNodes(seq)
                   /\ txWalk(w.writes) = txNodes(seq)
    /\ \A idx \in ShardIdx :
           (~up \/ ~shards[idx].exists \/ shards[idx].storedSeqs = {}) =>
               shards[idx].lastStored = 0 \/ shards[idx].complete

\* C30 witness: the incomplete shard has last stored the successor of a
\* ledger with transactions that it lacks; copying that ledger walks a
\* difference that leaves out the leaf both state tries share, and the
\* whole transaction trie
C30_Witness ==
    \E seq \in Seqs :
        /\ up /\ HasTx(seq)
        /\ storeRoute(seq) # NoIndex
        /\ seq \notin shards[storeRoute(seq)].storedSeqs
        /\ shards[storeRoute(seq)].lastStored = seq + 1
        /\ LET w == copyWrites(shards[storeRoute(seq)], seq, ZeroHash)
           IN  /\ stateWalk(w.writes) = << <<"S", seq>> >>
               /\ stateWalk(w.writes) # stateNodes(seq)
               /\ txWalk(w.writes) = << <<"T", seq>> >>
        /\ copyLedger(seq, ZeroHash, TRUE, TRUE).ret

\* the header and every state and tx node of this ledger are in the
\* backend be, uncorrupted
sound(be, seq) == \A h \in ObjectsOf(seq) : be[h] = DataOf(h)
\* the positive cache of a shard as it is, and swept empty
Caches(sh) == {sh.pCache, NoObjects}
\* the lookups with which validate gets to its loop
Found == {"exact", "later"}

\* C31: Shard::validate reports 'valid and complete' only when the header
\* and every state and tx node of every ledger from lastSeq down to
\* firstSeq are in the backend of the shard, uncorrupted; a node that is
\* missing ends the validation with another outcome as a corrupt one does;
\* and the failure point it reports is the sequence and the hash of the
\* first ledger, from lastSeq down, that has such a node.
C31_ValidOnlyIfSound ==
    (up /\ variant \in Validating) =>
    \A index \in ShardIdx, lookup \in Found :
        shards[index].exists =>
        \A pc \in Caches(shards[index]) :
            LET be == backend[index]
                r == validate(variant, index, shards[index].complete, be,
                              lookup, pc)
                failing == {seq \in Range(index) : ~sound(be, seq)}
            IN  /\ r.outcome = "valid and complete" => failing = {}
                /\ failing # {} =>
                       /\ r.outcome \in {"invalid", "incomplete"}
                       /\ r.seq = SetMaxOf(failing)
                       /\ r.hash = LedgerInfo(r.seq).hash

\* C32: Shard::validate passes the ledgers in descending order from lastSeq,
\* one sequence at a time, and not below the first sequence of the shard
\* (genesisSeq for the genesis shard), so it passes at most as many ledgers
\* as the shard has; and it reports 'valid and complete' for every shard,
\* also the genesis shard, whose backend has every ledger of its range with
\* all its nodes.
C32_WalksRangeDownward ==
    (up /\ variant \in Validating) =>
    \A index \in ShardIdx, lookup \in Found :
        shards[index].exists =>
        \A pc \in Caches(shards[index]) :
            LET be == backend[index]
                r == validate(variant, index, shards[index].complete, be,
                              lookup, pc)
            IN  /\ \A i \in 1 .. Len(r.passed) :
                       /\ r.passed[i] = lastSeq_(index) - (i - 1)
                       /\ r.passed[i] >= firstSeq_(index)
                /\ Len(r.passed) <= numLedgers(index)
                /\ (\A seq \in Range(index) : sound(be, seq)) =>
                       r.outcome = "valid and complete"

\* the ledger validate handed to valLedger as `next` with the i-th ledger
\* it passed: the one passed before, 0 for the first
nextOf(passed, i) == IF i = 1 THEN 0 ELSE passed[i - 1]

\* C33: for every ledger Shard::validate passes, the state trie is visited
\* by differences against the ledger validated before only when that
\* ledger's parentHash is this ledger's hash, and in full otherwise; the tx
\* trie of every ledger that has one is visited in full.
C33_TxTrieInFull ==
    (up /\ variant \in Validating) =>
    \A index \in ShardIdx, lookup \in Found :
        shards[index].exists =>
        \A pc \in Caches(shards[index]) :
            LET r == validate(variant, index, shards[index].complete,
                              backend[index], lookup, pc)
            IN  \A i \in 1 .. Len(r.passed) :
                    LET info == LedgerInfo(r.passed[i])
                        next == nextOf(r.passed, i)
                        k == valWalks(variant, info, next)
                    IN  /\ k.state = "differences" <=>
                               (next # 0 /\ LedgerInfo(next).parentHash = info.hash)
                        /\ k.state \in {"differences", "full"}
                        /\ info.txHash # ZeroHash => k.tx = "full"

\* C34: after DatabaseShardImp::sweep neither the positive nor the negative
\* cache of a complete shard or of the incomplete shard has a target size
\* above the target of the moment, max(shardCacheSz, cacheSz_ / (number of
\* complete shards + 1)).
C34_SweepBoundsBothCaches ==
    up =>
        LET after == sweep(targets, cacheSz_, complete_, incomplete_)
            sz == calcTargetCacheSz(cacheSz_, complete_)
        IN  \A i \in held(complete_, incomplete_) :
                /\ after[i].p <= sz
                /\ after[i].n <= sz

(* ---------------- C35 ---------------------------------------------------- *)
\* what the two Shard objects are compared on
compared(side) ==
    [storedSeqs |-> side.shard.storedSeqs, complete |-> side.shard.complete,
     control |-> side.control]

\* C35: the setStored that completes when length(storedSeqs) >= width - 1
\* before inserting and the setStored that inserts and completes when
\* length(storedSeqs) = width, given the same calls with distinct sequences
\* of the range, return the same result at every call and, after every call
\* that returns true in both, have the same storedSeqs, complete flag and
\* control file.
C35_SameStateSameResult ==
    /\ ~twin.differed
    /\ (twin.rets = <<TRUE, TRUE>>) =>
           compared(twin.before) = compared(twin.after)

\* both have completed on the last sequence of the range, after a call
\* whose control-file write failed
C35_Witness ==
    /\ twin.rets = <<TRUE, TRUE>>
    /\ twin.refused # {}
    /\ twin.called = Range(twin.index)
    /\ twin.before.shard.complete /\ twin.after.shard.complete
    /\ backed_
    /\ twin.index # genesisShardIndex

(* ---------------- C36 ---------------------------------------------------- *)
\* the header and every state and transaction node of the ledger of
\* sequence seq are in the backend of the shard with this index
holdsLedger(index, seq) ==
    \A h \in ObjectsOf(seq) : backend[index][h] = DataOf(h)

\* C36: in a crash-free run of copyLedger calls, whenever copyLedger walks
\* the state trie by differences the ledger last stored, against which it
\* walks, has all its nodes in the backend of the same shard, and every
\* sequence for which hasLedger answers true has its header and every
\* state and transaction node in the backend of its shard.
C36_StoredLedgersWhole ==
    up =>
        /\ \A seq \in Seqs :
              LET idx == storeRoute(seq)
              IN  (idx # NoIndex /\ parentOfLastStored(shards[idx], seq)) =>
                      holdsLedger(idx, shards[idx].lastStored)
        /\ \A seq \in Seqs :
              hasLedger(seq, shards, complete_, incomplete_) =>
                  holdsLedger(seqToShardIndex(seq), seq)

(* ---------------- C37 ---------------------------------------------------- *)
\* what holds at every moment of the acquirer's work: prepare returns a
\* sequence of the incomplete shard that is not stored, a complete shard
\* has had as many successful copies as its range is wide, and is not in
\* the incomplete slot
acquiring ==
    up =>
        /\ acquirer.pc = "copy" =>
              /\ incomplete_ # NoIndex
              /\ acquirer.seq \in Range(incomplete_)
              /\ acquirer.seq \notin shards[incomplete_].storedSeqs
        /\ incomplete_ # NoIndex =>
              acquirer.copied[incomplete_] < numLedgers(incomplete_)
        /\ \A i \in complete_ : acquirer.copied[i] = numLedgers(i)
        /\ incomplete_ \notin complete_

\* C37: an acquirer that calls prepare and then copyLedger with the ledger
\* of the returned sequence, the source having every node and the control
\* file being written, completes the newly created shard after exactly as
\* many successful copies as the range is wide; prepare never returns a
\* stored sequence, and the completed shard is in the complete map with the
\* incomplete slot empty.
C37_AcquirerCompletes ==
    /\ []acquiring
    /\ \A i \in ShardIdx :
          (up /\ incomplete_ = i) ~> (i \in complete_ /\ incomplete_ # i)

\* the shard after the genesis shard has been completed by the acquirer
C37_Witness ==
    /\ up
    /\ (genesisShardIndex + 1) \in complete_
    /\ acquirer.copied[genesisShardIndex + 1] = LedgersPerShard
    /\ incomplete_ = NoIndex

(* ---------------- C38 ---------------------------------------------------- *)
\* C38: canAdd_ is never set back to true while the process runs, and once
\* it is false every prepare made while there is no incomplete shard
\* returns none and creates no shard, whatever validLedgerSeq it is given
\* and whichever indexes are not owned.
C38_CanAddStaysFalse ==
    /\ [][(up /\ ~canAdd_ /\ up') => ~canAdd_']_vars
    /\ []((up /\ ~canAdd_ /\ incomplete_ = NoIndex) =>
             \A v \in Seqs, diskOk \in BOOLEAN, ofsOk \in BOOLEAN :
                 \A pick \in findShardIndexToAdd(v, complete_, incomplete_) :
                     LET r == prepare(v, diskOk, ofsOk, pick)
                     IN  /\ r.ret = 0
                         /\ r.incomplete = NoIndex
                         /\ r.shards = shards
                         /\ r.dir = dir /\ r.control = control
                         /\ r.backend = backend
                         /\ ~r.canAdd)

\* canAdd_ is false with no shard owned, prepare having found no index for
\* its validLedgerSeq, and a larger validLedgerSeq has an index to add
C38_Witness ==
    /\ up /\ ~canAdd_ /\ incomplete_ = NoIndex /\ complete_ = {}
    /\ \E v \in Seqs :
          \E pick \in findShardIndexToAdd(v, complete_, incomplete_) :
              pick # NoIndex

(* ---------------- C39 ---------------------------------------------------- *)
\* findShardIndexToAdd in a store whose genesis shard has the index
\* genesis: maxShardIndex and numShards as it computes them, whether its
\* first assert holds, whether it gets to the sampling loop, and whether
\* the loop can end at assert(0), every round drawing an owned index
asserts(genesis, validLedgerSeq, comp, incomp) ==
    LET idx0 == seqToShardIndex(validLedgerSeq)
        maxShardIndex == IF validLedgerSeq # lastSeq(idx0)
                         THEN Uint32Dec(idx0) ELSE idx0
        numShards == Cardinality(comp) + (IF incomp # NoIndex THEN 1 ELSE 0)
        free == {i \in genesis .. maxShardIndex : i \notin comp /\ i # incomp}
        samples == /\ ~(numShards >= Uint32Inc(maxShardIndex))
                   /\ ~((maxShardIndex < DenseLimit \/
                         2 * numShards > maxShardIndex) /\ free # {})
    IN  [entry |-> numShards <= Uint32Inc(maxShardIndex),
         samples |-> samples,
         assert0 |-> samples /\ NoIndex \in sampleIndexesFrom(
                         Samples, genesis, maxShardIndex, comp, incomp)]

\* C39: whenever prepare calls findShardIndexToAdd, for every validLedgerSeq,
\* numShards <= maxShardIndex + 1 holds on entry and the assert(0) after
\* the sampling loop is not reached; when every index from the genesis
\* shard to maxIdx is owned the function returns none without entering the
\* sampling loop.  Stated for the layout of the model and for one whose
\* genesis shard is the next index, as in the program, over the
\* inventories that hold no shard below the genesis shard and the
\* validLedgerSeq that leave an index to look at (genesis <= maxIdx).
C39_AssertsNeverFire ==
    (up /\ prepareFinds(TRUE)) =>
    \A genesis \in GenesisIndexes, validLedgerSeq \in AllValidLedgerSeqs :
        (/\ \A i \in complete_ : i >= genesis
         /\ genesis <= maxIdx(validLedgerSeq)) =>
            LET a == asserts(genesis, validLedgerSeq, complete_, incomplete_)
            IN  /\ a.entry
                /\ ~a.assert0
                /\ (genesis .. maxIdx(validLedgerSeq)) \subseteq complete_ =>
                       /\ ~a.samples
                       /\ findShardIndexToAddFrom(genesis, validLedgerSeq,
                              complete_, incomplete_) = {NoIndex}

(* ---------------- C40 ---------------------------------------------------- *)
\* the call is one of those the claim lists as failing
refused(info, sameDB, mapsValid, missing) ==
    \/ info.accountHash = ZeroHash
    \/ sameDB
    \/ ~mapsValid
    \/ rotating_batch(info.seq, missing).failed

\* C40: copyLedger of the rotating store and of the node store with one
\* backend returns false and writes nothing to the destination when the
\* account hash is zero, the source is the destination, a map is invalid
\* or a node is missing from the source, and otherwise returns true with
\* the whole batch in the destination; the rotating store writes the batch
\* to the backend that is the writable one at the time of the write.
C40_AllOrNothing ==
    /\ \A info \in Ledgers(RotatingSeq), sameDB \in BOOLEAN,
          mapsValid \in BOOLEAN,
          missing \in {ZeroHash} \cup ObjectsOf(RotatingSeq) :
          LET r == rotating_copyLedger(info, sameDB, mapsValid, missing,
                                       objects, getWritableBackend)
              n == DatabaseNodeImp_copyLedger(info, sameDB, mapsValid, missing,
                                              objects[writableBackend_])
              batch == rotating_batch(info.seq, missing).batch
          IN  IF refused(info, sameDB, mapsValid, missing)
              THEN /\ ~r.ret /\ r.objects = objects
                   /\ ~n.ret /\ n.backend = objects[writableBackend_]
              ELSE /\ r.ret /\ n.ret
                   /\ \A h \in batch :
                          /\ r.objects[writableBackend_][h] = DataOf(h)
                          /\ n.backend[h] = DataOf(h)
                   /\ \A id \in BackendIds \ {writableBackend_} :
                          r.objects[id] = objects[id]
    /\ copying.pc = "storeBatch" => copying.w = writableBackend_

====
